---- MODULE Spec2Model ----
(***************************************************************************)
(* Cursor based (keyset) pagination of graphql-starter:                    *)
(*   - pagination/cursor.rs   OpaqueCursor (base64 url-safe, no padding,   *)
(*                            around a serde_json payload)                 *)
(*   - pagination/page.rs     PageQuery::new / PageQuery::decode,          *)
(*                            Page::new, Page::from_items                   *)
(*   - macros sqlx/pagination the four synthesized query shapes            *)
(*   - sqlx.rs                sqlx_query_paginated_as (fetch + assembly)   *)
(*                                                                         *)
(* Conventions.  Option<T> is a sequence of length at most one: <<>> is    *)
(* None and <<x>> is Some(x).  A Result is a record with an `ok` flag.     *)
(* A text (String) is the sequence of its characters; a character is its   *)
(* index 0..63 in the url-safe base64 alphabet (A-Z a-z 0-9 - _), or one   *)
(* of the two codes below for characters outside the alphabet.  Bytes are  *)
(* integers 0..255.                                                        *)
(***************************************************************************)
EXTENDS Integers, Sequences, FiniteSets, TLC

VARIABLES
    vreq,     \* the arguments of one call of a library entry point (PageQuery::new,
              \* PageQuery::decode, the OpaqueCursor codec, the query macro)
    vres,     \* <<>> before that call, <<result>> after it
    store,    \* query path: [table, columns, base_args] the session runs against
    hist,     \* query path / in-memory path: the calls made so far, [req, res,
              \* queries, rows]: the page query, the result, the queries the
              \* executor received and the rows it returned
    trav      \* forward traversal: [first, cursor, acc, pages, status, stable,
              \* writes, orphaned]

vars == <<vreq, vres, store, hist, trav>>

----------------------------------------------------------------------------
(* Bounds of the model *)

MaxLimit == 2       \* first, last, default_limit, max_page_size are drawn from 0..MaxLimit
MaxId == 2          \* row ids are drawn from 1..MaxId
MaxTimestamp == 2   \* row timestamps are drawn from 1..MaxTimestamp
MaxCalls == 2       \* calls recorded in one session

----------------------------------------------------------------------------
(* Option and Result *)

None == <<>>
Some(x) == <<x>>
IsSome(o) == o /= <<>>
IsNone(o) == o = <<>>
Unwrap(o) == o[1]

Ok(v) == [ok |-> TRUE, val |-> v]
Err(e) == [ok |-> FALSE, err |-> e]

Min(a, b) == IF a < b THEN a ELSE b

----------------------------------------------------------------------------
(* pagination/error.rs: PaginationErrorCode.  `field` and `max` are only   *)
(* meaningful for the variants that carry them.                            *)

ErrorCode(code) == [code |-> code, field |-> "", max |-> None]
PageMissing == ErrorCode("PageMissing")
PageNegativeInput(f) == [code |-> "PageNegativeInput", field |-> f, max |-> None]
PageFirstAndLast == ErrorCode("PageFirstAndLast")
PageAfterAndBefore == ErrorCode("PageAfterAndBefore")
PageForwardWithBefore == ErrorCode("PageForwardWithBefore")
PageBackwardWithAfter == ErrorCode("PageBackwardWithAfter")
PageExceedsLimit(f, m) == [code |-> "PageExceedsLimit", field |-> f, max |-> Some(m)]
PageInvalidCursor == ErrorCode("PageInvalidCursor")
InternalServerError == ErrorCode("InternalServerError")

----------------------------------------------------------------------------
(* base64 URL_SAFE_NO_PAD, as used by pagination/cursor.rs *)

PadChar == 64       \* '=': not in the alphabet, and padding is not accepted
BadChar == 65       \* any other character outside the alphabet ('+', '/', ' ')

IsAlphabetChar(c) == c \in 0..63

\* Mutant of Base64Encode: the last group is padded with '=' to 4 characters
Base64Encode_Padded(bytes) ==
    LET n == Len(bytes)
        At(j) == IF j <= n THEN bytes[j] ELSE 0
        Char(i) ==
            LET g == (i - 1) \div 4
                k == (i - 1) % 4
                b1 == At(3 * g + 1)
                b2 == At(3 * g + 2)
                b3 == At(3 * g + 3)
            IN  CASE k = 0 -> b1 \div 4
                  [] k = 1 -> (b1 % 4) * 16 + b2 \div 16
                  [] k = 2 -> (b2 % 16) * 4 + b3 \div 64
                  [] OTHER -> b3 % 64
        len == (4 * n + 2) \div 3
    IN  [i \in 1..(4 * ((n + 2) \div 3)) |-> IF i <= len THEN Char(i) ELSE PadChar]

\* BASE64_URL_SAFE_NO_PAD.encode: 3 bytes -> 4 characters, no padding
Base64Encode(bytes) ==
    LET n == Len(bytes)
        At(j) == IF j <= n THEN bytes[j] ELSE 0
        Char(i) ==
            LET g == (i - 1) \div 4
                k == (i - 1) % 4
                b1 == At(3 * g + 1)
                b2 == At(3 * g + 2)
                b3 == At(3 * g + 3)
            IN  CASE k = 0 -> b1 \div 4
                  [] k = 1 -> (b1 % 4) * 16 + b2 \div 16
                  [] k = 2 -> (b2 % 16) * 4 + b3 \div 64
                  [] OTHER -> b3 % 64
    IN  [i \in 1..((4 * n + 2) \div 3) |-> Char(i)]

\* BASE64_URL_SAFE_NO_PAD.decode: None on an invalid byte, padding, an
\* impossible length or non-zero trailing bits; Some(bytes) otherwise
Base64Decode(text) ==
    LET n == Len(text)
        r == n % 4
        nbytes == 3 * (n \div 4) + (IF r = 0 THEN 0 ELSE r - 1)
        Byte(j) ==
            LET g == (j - 1) \div 3
                k == (j - 1) % 3
            IN  CASE k = 0 -> text[4 * g + 1] * 4 + text[4 * g + 2] \div 16
                  [] k = 1 -> (text[4 * g + 2] % 16) * 16 + text[4 * g + 3] \div 4
                  [] OTHER -> (text[4 * g + 3] % 4) * 64 + text[4 * g + 4]
    IN  IF \E i \in 1..n : ~IsAlphabetChar(text[i]) THEN None
        ELSE IF r = 1 THEN None
        ELSE IF r = 2 /\ text[n] % 16 /= 0 THEN None
        ELSE IF r = 3 /\ text[n] % 4 /= 0 THEN None
        ELSE Some([j \in 1..nbytes |-> Byte(j)])

----------------------------------------------------------------------------
(* serde_json for the cursor payloads: unsigned integers and tuples of     *)
(* them.  Bytes are ASCII: '0' = 48, ',' = 44, '[' = 91, ']' = 93.         *)

RECURSIVE JsonNumber(_)
\* serde_json::to_vec of an unsigned integer: its decimal digits
JsonNumber(n) ==
    IF n < 10 THEN <<48 + n>> ELSE Append(JsonNumber(n \div 10), 48 + (n % 10))

\* serde_json::to_vec of a tuple: a JSON array of its elements
JsonTuple(values) ==
    LET Join[i \in 0..Len(values)] ==
            IF i = 0 THEN <<>>
            ELSE Join[i - 1] \o (IF i = 1 THEN <<>> ELSE <<44>>) \o JsonNumber(values[i])
    IN  <<91>> \o Join[Len(values)] \o <<93>>

RECURSIVE DigitsValue(_)
DigitsValue(bs) ==
    IF bs = <<>> THEN 0
    ELSE DigitsValue(SubSeq(bs, 1, Len(bs) - 1)) * 10 + (bs[Len(bs)] - 48)

\* serde_json::from_slice::<usize>: a JSON number without sign, fraction,
\* exponent or leading zero, and nothing after it
ParseNumber(bs) ==
    IF bs = <<>> THEN None
    ELSE IF \E i \in 1..Len(bs) : bs[i] \notin 48..57 THEN None
    ELSE IF Len(bs) > 1 /\ bs[1] = 48 THEN None
    ELSE Some(DigitsValue(bs))

RECURSIVE SplitCommas(_)
SplitCommas(bs) ==
    IF \A i \in 1..Len(bs) : bs[i] /= 44 THEN <<bs>>
    ELSE LET p == CHOOSE i \in 1..Len(bs) :
                      bs[i] = 44 /\ \A j \in 1..(i - 1) : bs[j] /= 44
         IN  <<SubSeq(bs, 1, p - 1)>> \o SplitCommas(SubSeq(bs, p + 1, Len(bs)))

\* serde_json::from_slice::<(T1, .., Tn)>: a JSON array of exactly n numbers
ParseTuple(n, bs) ==
    IF Len(bs) < 2 \/ bs[1] /= 91 \/ bs[Len(bs)] /= 93 THEN None
    ELSE LET parts == SplitCommas(SubSeq(bs, 2, Len(bs) - 1))
         IN  IF Len(parts) /= n THEN None
             ELSE IF \E i \in 1..n : IsNone(ParseNumber(parts[i])) THEN None
             ELSE Some([i \in 1..n |-> Unwrap(ParseNumber(parts[i]))])

----------------------------------------------------------------------------
(* pagination/cursor.rs: OpaqueCursor(Vec<u8>) is the payload bytes *)

\* OpaqueCursor::decode
CursorDecode(text) ==
    LET data == Base64Decode(text)
    IN  IF IsNone(data) THEN Err(PageInvalidCursor) ELSE Ok(Unwrap(data))

\* OpaqueCursor::encode
CursorEncode(cursor) == Base64Encode(cursor)

\* OpaqueCursor::new::<usize>
CursorNewIndex(i) == JsonNumber(i)

\* OpaqueCursor::as_data::<usize>
CursorAsIndex(cursor) ==
    LET v == ParseNumber(cursor)
    IN  IF IsNone(v) THEN Err(PageInvalidCursor) ELSE Ok(Unwrap(v))

\* OpaqueCursor::new::<(T1, .., Tn)>
CursorNewTuple(values) == JsonTuple(values)

\* OpaqueCursor::as_data::<(T1, .., Tn)>
CursorAsTuple(n, cursor) ==
    LET v == ParseTuple(n, cursor)
    IN  IF IsNone(v) THEN Err(PageInvalidCursor) ELSE Ok(Unwrap(v))

----------------------------------------------------------------------------
(* pagination/page.rs: PageQuery *)

ForwardPageQuery(first, after) == [kind |-> "Forward", first |-> first, after |-> after]
BackwardPageQuery(last, before) == [kind |-> "Backward", last |-> last, before |-> before]

\* Mutant of ApplyDefaultLimit: the default always becomes `first`
ApplyDefaultLimit_AlwaysFirst(first, last, before, default_limit) ==
    IF IsSome(default_limit) /\ IsNone(first) /\ IsNone(last)
    THEN <<default_limit, last>>
    ELSE <<first, last>>

\* PageQuery::new, "Set defaults if set": the <<first, last>> pair after defaulting
ApplyDefaultLimit(first, last, before, default_limit) ==
    IF IsSome(default_limit) /\ IsNone(first) /\ IsNone(last)
    THEN IF IsSome(before) THEN <<first, default_limit>> ELSE <<default_limit, last>>
    ELSE <<first, last>>

\* Mutant of ExceedsMaximum: a limit equal to the maximum is rejected too
ExceedsMaximum_Inclusive(limit, max_page_size) ==
    IsSome(max_page_size) /\ limit >= Unwrap(max_page_size)

\* PageQuery::new, "Validate maximum, if set"
ExceedsMaximum(limit, max_page_size) ==
    IsSome(max_page_size) /\ limit > Unwrap(max_page_size)

\* Mutant of ForwardBranch: `before` is not looked at
ForwardBranch_IgnoresBefore(first, after, before, max_page_size) ==
    IF ExceedsMaximum(first, max_page_size)
    THEN Err(PageExceedsLimit("first", Unwrap(max_page_size)))
    ELSE Ok(ForwardPageQuery(first, after))

\* PageQuery::new, the forward branch (first is set)
ForwardBranch(first, after, before, max_page_size) ==
    IF ExceedsMaximum(first, max_page_size)
    THEN Err(PageExceedsLimit("first", Unwrap(max_page_size)))
    ELSE IF IsSome(before) THEN Err(PageForwardWithBefore)
    ELSE Ok(ForwardPageQuery(first, after))

\* PageQuery::new, the backward branch (last is set, first is not)
BackwardBranch(last, after, before, max_page_size) ==
    IF ExceedsMaximum(last, max_page_size)
    THEN Err(PageExceedsLimit("last", Unwrap(max_page_size)))
    ELSE IF IsSome(after) THEN Err(PageBackwardWithAfter)
    ELSE Ok(BackwardPageQuery(last, before))

\* PageQuery::new.  first and last are Option<usize>, after and before are
\* Option<OpaqueCursor>.
PageQueryNew(first0, last0, after, before, default_limit, max_page_size) ==
    LET fl == ApplyDefaultLimit(first0, last0, before, default_limit)
        first == fl[1]
        last == fl[2]
    IN  IF IsNone(first) /\ IsNone(last) THEN Err(PageMissing)
        ELSE IF IsSome(first) /\ Unwrap(first) < 0 THEN Err(PageNegativeInput("first"))
        ELSE IF IsSome(last) /\ Unwrap(last) < 0 THEN Err(PageNegativeInput("last"))
        ELSE IF IsSome(first) /\ IsSome(last) THEN Err(PageFirstAndLast)
        ELSE IF IsSome(after) /\ IsSome(before) THEN Err(PageAfterAndBefore)
        ELSE IF IsSome(first)
             THEN ForwardBranch(Unwrap(first), after, before, max_page_size)
             ELSE BackwardBranch(Unwrap(last), after, before, max_page_size)

\* Mutant of DecodeCursorArg: a text that does not decode is filtered out
\* like the empty text
DecodeCursorArg_DropsMalformed(text) ==
    IF IsNone(text) \/ Unwrap(text) = <<>> THEN Ok(None)
    ELSE LET c == CursorDecode(Unwrap(text))
         IN  IF c.ok THEN Ok(Some(c.val)) ELSE Ok(None)

\* Mutant of DecodeCursorArg: the empty text is decoded like any other
DecodeCursorArg_KeepsEmpty(text) ==
    IF IsNone(text) THEN Ok(None)
    ELSE LET c == CursorDecode(Unwrap(text))
         IN  IF c.ok THEN Ok(Some(c.val)) ELSE Err(PageInvalidCursor)

\* PageQuery::decode, one cursor argument: Option<String> to
\* Result<Option<OpaqueCursor>>; an empty text is filtered out
DecodeCursorArg(text) ==
    IF IsNone(text) \/ Unwrap(text) = <<>> THEN Ok(None)
    ELSE LET c == CursorDecode(Unwrap(text))
         IN  IF c.ok THEN Ok(Some(c.val)) ELSE Err(PageInvalidCursor)

\* PageQuery::decode.  after and before are Option<String>.
PageQueryDecode(first, last, after, before, default_limit, max_page_size) ==
    LET a == DecodeCursorArg(after)
        b == DecodeCursorArg(before)
    IN  IF ~a.ok THEN Err(a.err)
        ELSE IF ~b.ok THEN Err(b.err)
        ELSE PageQueryNew(first, last, a.val, b.val, default_limit, max_page_size)

----------------------------------------------------------------------------
(* The arguments the validator is called with *)

MaxCursorIndex == 1   \* well-formed sample cursors hold the indices 0..MaxCursorIndex

OptLimits == {None} \cup {Some(n) : n \in 0..MaxLimit}

SampleCursors == {CursorNewIndex(i) : i \in 0..MaxCursorIndex}

\* "x"; "Mx" (non-zero trailing bits); "Mw==" (padded); "+M" (outside the alphabet)
MalformedTexts == {<<49>>, <<12, 49>>, <<12, 48, PadChar, PadChar>>, <<BadChar, 12>>}

CursorTexts == {<<>>} \cup MalformedTexts \cup {CursorEncode(c) : c \in SampleCursors}

ValidatorRequests ==
    [entry : {"new"}, first : OptLimits, last : OptLimits,
     after : {None} \cup {Some(c) : c \in SampleCursors},
     before : {None} \cup {Some(c) : c \in SampleCursors},
     default_limit : OptLimits, max_page_size : OptLimits]
    \cup
    [entry : {"decode"}, first : OptLimits, last : OptLimits,
     after : {None} \cup {Some(t) : t \in CursorTexts},
     before : {None} \cup {Some(t) : t \in CursorTexts},
     default_limit : OptLimits, max_page_size : OptLimits]

\* The validator entry point a request names, applied to it
Validate(r) ==
    IF r.entry = "new"
    THEN PageQueryNew(r.first, r.last, r.after, r.before, r.default_limit, r.max_page_size)
    ELSE PageQueryDecode(r.first, r.last, r.after, r.before, r.default_limit,
                         r.max_page_size)

NoRequest == [entry |-> "none"]
NoStore == [table |-> {}, columns |-> <<>>, base_args |-> <<>>]
NoTraversal == [path |-> "none"]

InitValidate ==
    /\ vreq \in ValidatorRequests
    /\ vres = None
    /\ store = NoStore
    /\ hist = <<>>
    /\ trav = NoTraversal

\* A caller invokes PageQuery::new
CallNew ==
    /\ vreq.entry = "new"
    /\ vres = None
    /\ vres' = Some(Validate(vreq))
    /\ UNCHANGED <<vreq, store, hist, trav>>

\* A caller invokes PageQuery::decode
CallDecode ==
    /\ vreq.entry = "decode"
    /\ vres = None
    /\ vres' = Some(Validate(vreq))
    /\ UNCHANGED <<vreq, store, hist, trav>>

NextValidate == CallNew \/ CallDecode

SpecValidate == InitValidate /\ [][NextValidate]_vars

----------------------------------------------------------------------------
(* The cursor codec on its own: a value tuple goes through OpaqueCursor::new, *)
(* encode, decode and as_data; a cursor (any bytes) goes through encode and   *)
(* decode.                                                                    *)

MaxValue == 11        \* cursor values are drawn from 0..MaxValue
MaxPayloadLen == 3    \* arbitrary cursors hold up to MaxPayloadLen bytes

\* NUL, '1', '[', a byte above ASCII and the largest byte
PayloadBytes == {0, 49, 91, 200, 255}

ValueTuples == UNION {[1..n -> 0..MaxValue] : n \in 1..2}

Payloads == UNION {[1..n -> PayloadBytes] : n \in 0..MaxPayloadLen}

CodecRequests ==
    [entry : {"tuple"}, value : ValueTuples] \cup [entry : {"cursor"}, cursor : Payloads]

InitCodec ==
    /\ vreq \in CodecRequests
    /\ vres = None
    /\ store = NoStore
    /\ hist = <<>>
    /\ trav = NoTraversal

\* OpaqueCursor::new(v).encode(), then OpaqueCursor::decode(text).as_data()
TupleRoundTrip(value) ==
    LET text == CursorEncode(CursorNewTuple(value))
        decoded == CursorDecode(text)
    IN  [text |-> text,
         data |-> IF decoded.ok THEN CursorAsTuple(Len(value), decoded.val)
                  ELSE Err(decoded.err)]

\* A value tuple is made into a token and the token is read back
CallTupleRoundTrip ==
    /\ vreq.entry = "tuple"
    /\ vres = None
    /\ vres' = Some(TupleRoundTrip(vreq.value))
    /\ UNCHANGED <<vreq, store, hist, trav>>

\* A cursor is encoded and the text is decoded
CallCursorRoundTrip ==
    /\ vreq.entry = "cursor"
    /\ vres = None
    /\ vres' = Some([text |-> CursorEncode(vreq.cursor),
                     data |-> CursorDecode(CursorEncode(vreq.cursor))])
    /\ UNCHANGED <<vreq, store, hist, trav>>

NextCodec == CallTupleRoundTrip \/ CallCursorRoundTrip

SpecCodec == InitCodec /\ [][NextCodec]_vars

----------------------------------------------------------------------------
(* pagination/page.rs: Edge, PageInfo, Page *)

Edge(cursor, node) == [cursor |-> cursor, node |-> node]

\* Mutant of PageNew: the total is counted from the edges of the page
PageNew_TotalFromEdges(has_previous_page, has_next_page, total_items, edges) ==
    [page_info |->
        [has_previous_page |-> has_previous_page,
         has_next_page |-> has_next_page,
         start_cursor |-> IF edges = <<>> THEN None ELSE Some(edges[1].cursor),
         end_cursor |-> IF edges = <<>> THEN None ELSE Some(edges[Len(edges)].cursor)],
     total_items |-> IF IsSome(total_items) THEN Some(Len(edges)) ELSE None,
     edges |-> edges]

\* Page::new
PageNew(has_previous_page, has_next_page, total_items, edges) ==
    [page_info |->
        [has_previous_page |-> has_previous_page,
         has_next_page |-> has_next_page,
         start_cursor |-> IF edges = <<>> THEN None ELSE Some(edges[1].cursor),
         end_cursor |-> IF edges = <<>> THEN None ELSE Some(edges[Len(edges)].cursor)],
     total_items |-> total_items,
     edges |-> edges]

\* Edge::map: the node is converted, the cursor is kept
EdgeMap(edge, map) == Edge(edge.cursor, map[edge.node])

\* Edge::try_map
EdgeTryMap(edge, map) ==
    LET node == map[edge.node]
    IN  IF node.ok THEN Ok(Edge(edge.cursor, node.val)) ELSE Err(node.err)

\* Page::from_iter
PageFromIter(has_previous_page, has_next_page, total_items, edges) ==
    PageNew(has_previous_page, has_next_page, total_items, edges)

\* collect::<Result<Vec<_>, _>>(): all the values, or the first error
CollectResults(results) ==
    IF \E i \in 1..Len(results) : ~results[i].ok
    THEN LET k == CHOOSE i \in 1..Len(results) :
                      ~results[i].ok /\ \A j \in 1..(i - 1) : results[j].ok
         IN  Err(results[k].err)
    ELSE Ok([i \in 1..Len(results) |-> results[i].val])

\* Mutant of PageMap: the page information is carried over as it was
PageMap_StalePageInfo(page, map) ==
    [page_info |-> page.page_info,
     total_items |-> page.total_items,
     edges |-> [i \in 1..Len(page.edges) |-> map[page.edges[i]]]]

\* Page::map: the closure takes an edge and returns an edge
PageMap(page, map) ==
    PageNew(page.page_info.has_previous_page,
            page.page_info.has_next_page,
            page.total_items,
            [i \in 1..Len(page.edges) |-> map[page.edges[i]]])

\* Page::try_map
PageTryMap(page, map) ==
    LET edges == CollectResults([i \in 1..Len(page.edges) |-> map[page.edges[i]]])
    IN  IF ~edges.ok THEN Err(edges.err)
        ELSE Ok(PageNew(page.page_info.has_previous_page,
                        page.page_info.has_next_page,
                        page.total_items,
                        edges.val))

\* Page::map_node: the closure takes a node and returns a node
PageMapNode(page, map) ==
    PageNew(page.page_info.has_previous_page,
            page.page_info.has_next_page,
            page.total_items,
            [i \in 1..Len(page.edges) |-> EdgeMap(page.edges[i], map)])

\* Page::try_map_node
PageTryMapNode(page, map) ==
    LET edges == CollectResults([i \in 1..Len(page.edges) |->
                                    EdgeTryMap(page.edges[i], map)])
    IN  IF ~edges.ok THEN Err(edges.err)
        ELSE Ok(PageNew(page.page_info.has_previous_page,
                        page.page_info.has_next_page,
                        page.total_items,
                        edges.val))

\* Mutant of RetainRange: the elements from `end` on are kept
RetainRange_NoTruncate(items, start, end) ==
    IF start < Len(items) THEN SubSeq(items, start + 1, Len(items)) ELSE <<>>

\* retain_range(items, start..end) of page.rs: truncate to `end`, then drain
\* the first `start` elements, or clear when start is not below the length
RetainRange(items, start, end) ==
    LET truncated == SubSeq(items, 1, Min(end, Len(items)))
    IN  IF start < Len(truncated)
        THEN SubSeq(truncated, start + 1, Len(truncated))
        ELSE <<>>

\* Mutant of FromItemsSlice: the out-of-range cursors are not returned early
FromItemsSlice_NoEarlyReturn(items, first, after, last, before) ==
    LET items_len0 == Len(items)
        total_items == Some(items_len0)
        start0 == IF IsSome(after) THEN Unwrap(after) + 1 ELSE 0
        end0 == IF IsSome(before) THEN Unwrap(before) ELSE items_len0
        slice == RetainRange(items, start0, end0)
        items_len == Len(slice)
        kept == IF IsSome(first)
                THEN RetainRange(slice, 0, Min(Unwrap(first), items_len))
                ELSE IF IsSome(last)
                THEN RetainRange(slice, items_len - Min(Unwrap(last), items_len),
                                 items_len)
                ELSE slice
        end == IF IsSome(first) THEN start0 + Len(kept) ELSE end0
        start == IF IsNone(first) /\ IsSome(last) THEN end - Len(kept) ELSE start0
        edges == [idx \in 1..Len(kept) |->
                     Edge(CursorNewIndex(start + (idx - 1)), kept[idx])]
    IN  PageNew(start > 0, end < items_len, total_items, edges)

\* Page::from_items after the cursors are deserialized.  first, after, last
\* and before are Option<usize>.  items_len is re-bound (shadowed) to the
\* length of the slice before first/last are applied, as in the source.
FromItemsSlice(items, first, after, last, before) ==
    LET items_len0 == Len(items)
        total_items == Some(items_len0)
    IN  IF IsSome(after) /\ Unwrap(after) >= items_len0
        THEN PageNew(FALSE, FALSE, total_items, <<>>)
        ELSE IF IsSome(before) /\ Unwrap(before) = 0
        THEN PageNew(FALSE, FALSE, total_items, <<>>)
        ELSE
            LET start0 == IF IsSome(after) THEN Unwrap(after) + 1 ELSE 0
                end0 == IF IsSome(before) THEN Unwrap(before) ELSE items_len0
                slice == RetainRange(items, start0, end0)
                items_len == Len(slice)
                kept == IF IsSome(first)
                        THEN RetainRange(slice, 0, Min(Unwrap(first), items_len))
                        ELSE IF IsSome(last)
                        THEN RetainRange(slice, items_len - Min(Unwrap(last), items_len),
                                         items_len)
                        ELSE slice
                end == IF IsSome(first) THEN start0 + Len(kept) ELSE end0
                start == IF IsNone(first) /\ IsSome(last) THEN end - Len(kept) ELSE start0
                edges == [idx \in 1..Len(kept) |->
                             Edge(CursorNewIndex(start + (idx - 1)), kept[idx])]
            IN  PageNew(start > 0, end < items_len, total_items, edges)

\* Page::from_items
FromItems(items, page) ==
    LET cursor == IF page.kind = "Forward" THEN page.after ELSE page.before
        index == IF IsSome(cursor) THEN CursorAsIndex(Unwrap(cursor)) ELSE Ok(0)
        at == IF IsSome(cursor) THEN Some(index.val) ELSE None
    IN  IF ~index.ok THEN Err(index.err)
        ELSE IF page.kind = "Forward"
        THEN Ok(FromItemsSlice(items, Some(page.first), at, None, None))
        ELSE Ok(FromItemsSlice(items, None, None, Some(page.last), at))

----------------------------------------------------------------------------
(* graphql-starter-macros sqlx/pagination: the synthesized query.  The     *)
(* query text is kept as its parts: the base query text, the filter as the *)
(* list of its OR-ed terms, the ORDER BY lists and the placeholder number  *)
(* of the LIMIT.  A placeholder $k is the number k.                        *)

\* Mutant of ColumnsToStr: the reversed ordering flips the first column only
ColumnsToStr_ReversesFirstOnly(columns, reverse) ==
    [i \in 1..Len(columns) |->
        [column |-> columns[i].name,
         dir |-> IF (IF reverse /\ i = 1 THEN ~columns[i].asc ELSE columns[i].asc)
                 THEN "ASC" ELSE "DESC"]]

\* Mutant of ColumnsToStr: the reversed ordering is the declared one
ColumnsToStr_NeverReversed(columns, reverse) ==
    [i \in 1..Len(columns) |->
        [column |-> columns[i].name,
         dir |-> IF columns[i].asc THEN "ASC" ELSE "DESC"]]

\* columns_to_str
ColumnsToStr(columns, reverse) ==
    [i \in 1..Len(columns) |->
        [column |-> columns[i].name,
         dir |-> IF (IF reverse THEN ~columns[i].asc ELSE columns[i].asc)
                 THEN "ASC" ELSE "DESC"]]

\* Mutant of ColumnsToFilter: the terms lack the equality prefix of the
\* columns before them
ColumnsToFilter_NoPrefix(columns, after, nargs) ==
    [ix \in 1..Len(columns) |->
        [prev |-> <<>>,
         column |-> columns[ix].name,
         op |-> IF (columns[ix].asc /\ after) \/ (~columns[ix].asc /\ ~after)
                THEN ">" ELSE "<",
         ref |-> nargs + ix]]

\* Mutant of ColumnsToFilter: the placeholder is taken before the value is
\* pushed to the arguments
ColumnsToFilter_RefBeforePush(columns, after, nargs) ==
    [ix \in 1..Len(columns) |->
        [prev |-> [j \in 1..(ix - 1) |->
                      [column |-> columns[j].name, ref |-> nargs + j - 1]],
         column |-> columns[ix].name,
         op |-> IF (columns[ix].asc /\ after) \/ (~columns[ix].asc /\ ~after)
                THEN ">" ELSE "<",
         ref |-> nargs + ix - 1]]

\* Mutant of ColumnsToFilter: the comparison ignores the column's direction
ColumnsToFilter_IgnoresDirection(columns, after, nargs) ==
    [ix \in 1..Len(columns) |->
        [prev |-> [j \in 1..(ix - 1) |-> [column |-> columns[j].name, ref |-> nargs + j]],
         column |-> columns[ix].name,
         op |-> IF after THEN ">" ELSE "<",
         ref |-> nargs + ix]]

\* columns_to_filter: term ix is (prev AND "col_ix" op $ref), where prev is
\* the conjunction "col_j" = $ref_j of the columns before it; the value of
\* column ix is pushed to the arguments, so its placeholder is nargs + ix
ColumnsToFilter(columns, after, nargs) ==
    [ix \in 1..Len(columns) |->
        [prev |-> [j \in 1..(ix - 1) |-> [column |-> columns[j].name, ref |-> nargs + j]],
         column |-> columns[ix].name,
         op |-> IF (columns[ix].asc /\ after) \/ (~columns[ix].asc /\ ~after)
                THEN ">" ELSE "<",
         ref |-> nargs + ix]]

\* Mutant of LimitArg: the extra row is always asked for
LimitArg_AlwaysExtra(n, extra_row) == n + 1

\* The limit argument: (first) + 1i64 with extra_row, first otherwise
LimitArg(n, extra_row) == IF extra_row THEN n + 1 ELSE n

\* QueryInput::parse after the keys are read: a missing `args` is empty, a
\* missing `extra_row` is false, and the checks at the end.  Every field of
\* the raw input is an Option.
ParseQueryInput(raw) ==
    IF IsNone(raw.record) THEN Err("expected record key")
    ELSE IF IsNone(raw.query) THEN Err("expected query key")
    ELSE IF IsNone(raw.columns) THEN Err("expected columns key")
    ELSE IF Unwrap(raw.columns) = <<>> THEN Err("At least one column must be specified")
    ELSE IF IsSome(raw.first) /\ IsSome(raw.last)
         THEN Err("Only one of 'first' or 'last' can be set")
    ELSE IF IsSome(raw.first) /\ IsSome(raw.before)
         THEN Err("'before' can only be used with 'last'")
    ELSE IF IsSome(raw.last) /\ IsSome(raw.after)
         THEN Err("'after' can only be used with 'first'")
    ELSE Ok([record |-> Unwrap(raw.record),
             query |-> Unwrap(raw.query),
             args |-> IF IsSome(raw.args) THEN Unwrap(raw.args) ELSE <<>>,
             extra_row |-> IF IsSome(raw.extra_row) THEN Unwrap(raw.extra_row) ELSE FALSE,
             columns |-> Unwrap(raw.columns),
             first |-> raw.first, last |-> raw.last,
             after |-> raw.after, before |-> raw.before])

\* r#impl, "any other combination": a compile error instead of a query
UnexpectedPageInfo ==
    [source |-> [shape |-> "compile_error", query |-> "", filter |-> <<>>,
                 order_reverse |-> <<>>, order |-> <<>>, limit |-> 0],
     args |-> <<>>]

\* r#impl: [source, args] of the expand_query! it produces.  first/last are
\* Option<i64>, after/before Option<tuple>.  Shape "plain" is the base query
\* as it is (no page set); A, B, C and D are the four paginated shapes.
Impl(input) ==
    LET n == IF IsSome(input.first) THEN Unwrap(input.first) ELSE Unwrap(input.last)
        args1 == Append(input.args, LimitArg(n, input.extra_row))
        limit == Len(args1)
        order == ColumnsToStr(input.columns, FALSE)
        order_reverse == ColumnsToStr(input.columns, TRUE)
        set == <<IsSome(input.first), IsSome(input.last),
                 IsSome(input.after), IsSome(input.before)>>
    IN  IF set = <<FALSE, FALSE, FALSE, FALSE>>
        THEN [source |-> [shape |-> "plain", query |-> input.query, filter |-> <<>>,
                          order_reverse |-> <<>>, order |-> <<>>, limit |-> 0],
              args |-> input.args]
        ELSE IF set = <<TRUE, FALSE, FALSE, FALSE>>
        THEN [source |-> [shape |-> "A", query |-> input.query, filter |-> <<>>,
                          order_reverse |-> <<>>, order |-> order, limit |-> limit],
              args |-> args1]
        ELSE IF set = <<TRUE, FALSE, TRUE, FALSE>>
        THEN [source |-> [shape |-> "B", query |-> input.query,
                          filter |-> ColumnsToFilter(input.columns, TRUE, Len(args1)),
                          order_reverse |-> <<>>, order |-> order, limit |-> limit],
              args |-> args1 \o Unwrap(input.after)]
        ELSE IF set = <<FALSE, TRUE, FALSE, FALSE>>
        THEN [source |-> [shape |-> "C", query |-> input.query, filter |-> <<>>,
                          order_reverse |-> order_reverse, order |-> order,
                          limit |-> limit],
              args |-> args1]
        ELSE IF set = <<FALSE, TRUE, FALSE, TRUE>>
        THEN [source |-> [shape |-> "D", query |-> input.query,
                          filter |-> ColumnsToFilter(input.columns, FALSE, Len(args1)),
                          order_reverse |-> order_reverse, order |-> order,
                          limit |-> limit],
              args |-> args1 \o Unwrap(input.before)]
        ELSE UnexpectedPageInfo

\* sqlx_expand_paginated_query!: parse the input, then r#impl
ExpandPaginatedQuery(raw) ==
    LET input == ParseQueryInput(raw)
    IN  IF input.ok THEN Ok(Impl(input.val)) ELSE Err(input.err)

\* The query text r#impl formats from those parts

\* columns_to_str: "col" DIR joined with ", "
OrderText(order) ==
    LET Join[i \in 0..Len(order)] ==
            IF i = 0 THEN ""
            ELSE Join[i - 1] \o (IF i = 1 THEN "" ELSE ", ")
                    \o "\"" \o order[i].column \o "\" " \o order[i].dir
    IN  Join[Len(order)]

\* columns_to_filter, `prev`: "col" = $ref joined with " AND "
PrevText(prev) ==
    LET Join[j \in 0..Len(prev)] ==
            IF j = 0 THEN ""
            ELSE Join[j - 1] \o (IF j = 1 THEN "" ELSE " AND ")
                    \o "\"" \o prev[j].column \o "\" = $" \o ToString(prev[j].ref)
    IN  Join[Len(prev)]

\* columns_to_filter, one entry of `filters`
TermText(term) ==
    LET current_filter ==
            "\"" \o term.column \o "\" " \o term.op \o " $" \o ToString(term.ref)
    IN  IF term.prev = <<>> THEN current_filter
        ELSE "(" \o PrevText(term.prev) \o " AND " \o current_filter \o ")"

\* columns_to_filter: the entries joined with " OR "
FilterText(filter) ==
    LET Join[i \in 0..Len(filter)] ==
            IF i = 0 THEN ""
            ELSE Join[i - 1] \o (IF i = 1 THEN "" ELSE " OR ") \o TermText(filter[i])
    IN  Join[Len(filter)]

\* r#impl: the format! of each arm
SourceText(src) ==
    LET limit == "$" \o ToString(src.limit)
    IN  CASE src.shape = "A" ->
                src.query \o " ORDER BY " \o OrderText(src.order) \o " LIMIT " \o limit
          [] src.shape = "B" ->
                "SELECT * FROM (" \o src.query \o ") as q WHERE " \o FilterText(src.filter)
                    \o " ORDER BY " \o OrderText(src.order) \o " LIMIT " \o limit
          [] src.shape = "C" ->
                "SELECT * FROM (" \o src.query \o " ORDER BY "
                    \o OrderText(src.order_reverse) \o " LIMIT " \o limit
                    \o ") as q ORDER BY " \o OrderText(src.order)
          [] src.shape = "D" ->
                "SELECT * FROM (SELECT * FROM (" \o src.query \o ") as q WHERE "
                    \o FilterText(src.filter) \o " ORDER BY "
                    \o OrderText(src.order_reverse) \o " LIMIT " \o limit
                    \o ") as o ORDER BY " \o OrderText(src.order)
          [] OTHER -> src.query

----------------------------------------------------------------------------
(* The row executor (fetch_all): the SQL meaning of the synthesized query  *)
(* over a table of rows [timestamp, id].                                   *)

BaseQueryAll == "SELECT * FROM todo"
BaseQueryExcept == "SELECT * FROM todo WHERE id != $1"

\* The rows the base query selects
BaseRows(query, args, table) ==
    IF query = BaseQueryExcept THEN {r \in table : r.id /= args[1]} ELSE table

\* WHERE: the OR of the terms, each the AND of its equalities and comparison
FilterHolds(filter, args, row) ==
    \E t \in 1..Len(filter) :
        /\ \A j \in 1..Len(filter[t].prev) :
              row[filter[t].prev[j].column] = args[filter[t].prev[j].ref]
        /\ IF filter[t].op = ">"
           THEN row[filter[t].column] > args[filter[t].ref]
           ELSE row[filter[t].column] < args[filter[t].ref]

\* r1 sorts strictly before r2 under an ORDER BY list
OrderedBefore(order, r1, r2) ==
    \E i \in 1..Len(order) :
        /\ \A j \in 1..(i - 1) : r1[order[j].column] = r2[order[j].column]
        /\ IF order[i].dir = "ASC"
           THEN r1[order[i].column] < r2[order[i].column]
           ELSE r1[order[i].column] > r2[order[i].column]

\* ORDER BY over rows that the ORDER BY list tells apart
SortRows(rows, order) ==
    [i \in 1..Cardinality(rows) |->
        CHOOSE r \in rows :
            Cardinality({x \in rows : OrderedBefore(order, x, r)}) = i - 1]

Range(seq) == {seq[i] : i \in 1..Len(seq)}

\* fetch_all: the rows of the query, or an error (a negative LIMIT)
FetchAll(q, table) ==
    LET src == q.source
        base == BaseRows(src.query, q.args, table)
        selected == IF src.filter = <<>> THEN base
                    ELSE {r \in base : FilterHolds(src.filter, q.args, r)}
        limit == q.args[src.limit]
        inner == IF src.shape \in {"A", "B"}
                 THEN SortRows(selected, src.order)
                 ELSE SortRows(selected, src.order_reverse)
        limited == SubSeq(inner, 1, Min(limit, Len(inner)))
    IN  IF limit < 0 THEN Err(InternalServerError)
        ELSE IF src.shape \in {"A", "B"} THEN Ok(limited)
        ELSE Ok(SortRows(Range(limited), src.order))

----------------------------------------------------------------------------
(* sqlx.rs: sqlx_query_paginated_as *)

\* struct_to_tuple!(r => cols): ( r.c1, .., r.cn ), which for one column is
\* the parenthesised value r.c1 and not a tuple; then OpaqueCursor::new
RowCursor(columns, row) ==
    IF Len(columns) = 1 THEN JsonNumber(row[columns[1].name])
    ELSE JsonTuple([i \in 1..Len(columns) |-> row[columns[i].name]])

\* IntoCursorVec::with_cursor
WithCursor(columns, rows) ==
    [i \in 1..Len(rows) |-> Edge(RowCursor(columns, rows[i]), rows[i])]

\* Mutant of TrimRows: the extra row is always taken from the head
TrimRows_AlwaysHead(rows, limit, backward) ==
    IF Len(rows) > limit THEN SubSeq(rows, 2, Len(rows)) ELSE rows

\* The row removed when more than `limit` rows were fetched
TrimRows(rows, limit, backward) ==
    IF Len(rows) > limit
    THEN IF backward THEN SubSeq(rows, 2, Len(rows))
         ELSE SubSeq(rows, 1, Len(rows) - 1)
    ELSE rows

\* Mutant of AssemblePage: both flags are set when a row was removed
AssemblePage_BothFlags(columns, rows, limit, backward) ==
    PageNew(Len(rows) > limit,
            Len(rows) > limit,
            None,
            WithCursor(columns, TrimRows(rows, limit, backward)))

\* The page assembly at the end of sqlx_query_paginated_as
AssemblePage(columns, rows, limit, backward) ==
    PageFromIter(Len(rows) > limit /\ backward,
                 Len(rows) > limit /\ ~backward,
                 None,
                 WithCursor(columns, TrimRows(rows, limit, backward)))

\* `page.first as i64`: the limits of the model are far below 2^63
AsI64(n) == n

\* `let after: ($($ty,)*) = after.as_data()?` (or before): the cursor of the
\* page query as Result<Option<tuple>>
CursorTuple(page, st) ==
    LET cursor == IF page.kind = "Backward" THEN page.before ELSE page.after
        tuple == CursorAsTuple(Len(st.columns), Unwrap(cursor))
    IN  IF IsNone(cursor) THEN Ok(None)
        ELSE IF tuple.ok THEN Ok(Some(tuple.val))
        ELSE Err(tuple.err)

\* The sqlx_expand_paginated_query! invocation of the matching arm
ExpandInput(page, st, tuple) ==
    LET backward == page.kind = "Backward"
    IN  [record |-> Some("TodoRow"), query |-> Some(st.query), args |-> Some(st.base_args),
         extra_row |-> Some(TRUE), columns |-> Some(st.columns),
         first |-> IF backward THEN None ELSE Some(AsI64(page.first)),
         last |-> IF backward THEN Some(AsI64(page.last)) ELSE None,
         after |-> IF backward THEN None ELSE tuple,
         before |-> IF backward THEN tuple ELSE None]

\* One run of sqlx_query_paginated_as!(page, executor, [columns], record,
\* query, args..): the queries the executor received, the rows it returned
\* and the result of the macro
RunQueryPaginatedAs(page, st) ==
    LET backward == page.kind = "Backward"
        limit == IF backward THEN page.last ELSE page.first
        tuple == CursorTuple(page, st)
        query == ExpandPaginatedQuery(ExpandInput(page, st, tuple.val)).val
        rows == FetchAll(query, st.table)
    IN  IF ~tuple.ok THEN [queries |-> <<>>, rows |-> <<>>, res |-> Err(tuple.err)]
        ELSE IF ~rows.ok
        THEN [queries |-> <<query>>, rows |-> <<>>, res |-> Err(InternalServerError)]
        ELSE [queries |-> <<query>>, rows |-> rows.val,
              res |-> Ok(AssemblePage(st.columns, rows.val, limit, backward))]

\* The result of sqlx_query_paginated_as!
QueryPaginatedAs(page, st) == RunQueryPaginatedAs(page, st).res

----------------------------------------------------------------------------
(* A session: a caller pages through one store, over the query path        *)
(* (sqlx_query_paginated_as) or over the in-memory path (Page::from_items  *)
(* on the same records in their declared order).                           *)

Rows == [timestamp : 1..MaxTimestamp, id : 1..MaxId]

Column(name, asc) == [name |-> name, asc |-> asc]

\* [timestamp.asc(), id.desc()] as in tests/sqlx_tests.rs, its mirror image,
\* and the single column [id.desc()] of the macro's own tests
ColumnSpecs ==
    { <<Column("timestamp", TRUE), Column("id", FALSE)>>,
      <<Column("id", TRUE), Column("timestamp", FALSE)>>,
      <<Column("id", FALSE)>> }

RowKey(columns, row) == [i \in 1..Len(columns) |-> row[columns[i].name]]

\* The listed columns identify a record (the caller's obligation)
UniqueKey(columns, table) ==
    \A r1, r2 \in table : RowKey(columns, r1) = RowKey(columns, r2) => r1 = r2

Stores ==
    { st \in [path : {"query", "items"}, table : SUBSET Rows, columns : ColumnSpecs,
              query : {BaseQueryAll, BaseQueryExcept}, base_args : {<<>>, <<MaxId>>}] :
        /\ (st.query = BaseQueryExcept) = (st.base_args /= <<>>)
        /\ UniqueKey(st.columns, st.table) }

\* The dataset of a store in its declared order: the ground truth
DeclaredOrder(columns) ==
    [i \in 1..Len(columns) |->
        [column |-> columns[i].name, dir |-> IF columns[i].asc THEN "ASC" ELSE "DESC"]]

Dataset(st) ==
    SortRows(BaseRows(st.query, st.base_args, st.table), DeclaredOrder(st.columns))

\* The cursor a caller holds for the element at position k (1-based) of the
\* dataset: minted by the path it pages over
CursorAt(st, k) ==
    IF st.path = "query" THEN RowCursor(st.columns, Dataset(st)[k])
    ELSE CursorNewIndex(k - 1)

\* Cursors that were not minted for the store: not JSON ("x"), a tuple of
\* one value, a tuple of three values
ForeignCursors == {<<120>>, CursorNewTuple(<<1>>), CursorNewTuple(<<1, 1, 1>>)}

\* The cursors a caller holds from earlier: of any record that is or was in
\* the table, or any index up to one past the end; or a foreign one
HeldCursors(st) ==
    ForeignCursors \cup
        IF st.path = "query"
        THEN {RowCursor(st.columns, r) : r \in Rows}
        ELSE {CursorNewIndex(i) : i \in 0..(Len(Dataset(st)) + 1)}

\* The cursors a caller may send: on the first call one it holds from
\* earlier, afterwards the start or end cursor of the page it just received
KnownCursors ==
    IF hist = <<>> THEN HeldCursors(store)
    ELSE LET last == hist[Len(hist)].res
         IN  IF ~last.ok THEN {}
             ELSE {Unwrap(c) : c \in {x \in {last.val.page_info.start_cursor,
                                             last.val.page_info.end_cursor} : IsSome(x)}}

\* The page queries a caller may run: built directly, or, when the request
\* came in as raw arguments, the one the validator returned for them
PageQueries ==
    LET cursors == {None} \cup {Some(c) : c \in KnownCursors}
    IN  IF vreq = NoRequest
        THEN {ForwardPageQuery(n, c) : n \in 0..MaxLimit, c \in cursors}
             \cup {BackwardPageQuery(n, c) : n \in 0..MaxLimit, c \in cursors}
        ELSE IF IsSome(vres) /\ Unwrap(vres).ok THEN {Unwrap(vres).val}
        ELSE {}

Init ==
    /\ store \in Stores
    /\ hist = <<>>
    /\ vreq = NoRequest
    /\ vres = None
    /\ trav = NoTraversal

\* The caller runs sqlx_query_paginated_as! with a PageQuery
CallQueryPaginatedAs ==
    /\ store.path = "query"
    /\ Len(hist) < MaxCalls
    /\ \E page \in PageQueries :
          LET run == RunQueryPaginatedAs(page, store)
          IN  hist' = Append(hist, [req |-> page, res |-> run.res,
                                    queries |-> run.queries, rows |-> run.rows])
    /\ UNCHANGED <<vreq, vres, store, trav>>

\* The caller runs Page::from_items with a PageQuery
CallFromItems ==
    /\ store.path = "items"
    /\ Len(hist) < MaxCalls
    /\ \E page \in PageQueries :
          hist' = Append(hist, [req |-> page, res |-> FromItems(Dataset(store), page),
                                queries |-> <<>>, rows |-> <<>>])
    /\ UNCHANGED <<vreq, vres, store, trav>>

Next == CallQueryPaginatedAs \/ CallFromItems

Spec == Init /\ [][Next]_vars

----------------------------------------------------------------------------
(* A request from its raw arguments: PageQuery::decode validates them and  *)
(* the page query it returns is run against the store.                     *)

\* The cursor texts a client may send to a store
RequestTexts(st) ==
    {<<>>} \cup MalformedTexts
        \cup {CursorEncode(c) : c \in ForeignCursors}
        \cup {CursorEncode(CursorAt(st, k)) : k \in 1..Len(Dataset(st))}

Requests(st) ==
    [entry : {"decode"}, first : OptLimits, last : OptLimits,
     after : {None} \cup {Some(t) : t \in RequestTexts(st)},
     before : {None} \cup {Some(t) : t \in RequestTexts(st)},
     default_limit : {None}, max_page_size : {None}]

InitRequest ==
    /\ store \in Stores
    /\ vreq \in Requests(store)
    /\ vres = None
    /\ hist = <<>>
    /\ trav = NoTraversal

NextRequest == CallDecode \/ CallQueryPaginatedAs \/ CallFromItems

SpecRequest == InitRequest /\ [][NextRequest]_vars

----------------------------------------------------------------------------
(* The macro on its own: sqlx_expand_paginated_query! applied to an input. *)
(* Argument expressions are taken by their values.                         *)

TestFirst == 10       \* first = 10i64 of the macro's tests
MaxArgs == 2          \* the base query has up to MaxArgs arguments of its own

BaseQueryRows == "SELECT \"id\", \"name\" FROM rows"
BaseQueryTenant == "SELECT \"id\", \"name\" FROM rows WHERE tenant = $1"

\* columns = [id.desc()], [id], [name.asc(), id.desc()] of the macro's tests,
\* the [timestamp.asc(), id.desc()] of tests/sqlx_tests.rs, three columns,
\* and an empty list
MacroColumns ==
    { <<>>,
      <<Column("id", FALSE)>>,
      <<Column("id", TRUE)>>,
      <<Column("name", TRUE), Column("id", FALSE)>>,
      <<Column("timestamp", TRUE), Column("id", FALSE)>>,
      <<Column("name", FALSE), Column("id", TRUE), Column("timestamp", FALSE)>> }

\* args = [..]: the values of the base query's own arguments
MacroArgs == {[i \in 1..k |-> 70 + i] : k \in 0..MaxArgs}

MacroLimits == {None, Some(TestFirst)} \cup {Some(n) : n \in 0..MaxLimit}

\* after / before: a tuple with one value per column
MacroCursors(columns) == {None} \cup {Some(v) : v \in [1..Len(columns) -> 1..MaxId]}

MacroInputs ==
    UNION { [record : {Some("MyRow")},
             query : {Some(IF args = <<>> THEN BaseQueryRows ELSE BaseQueryTenant)},
             args : {Some(args)} \cup (IF args = <<>> THEN {None} ELSE {}),
             extra_row : {None, Some(TRUE), Some(FALSE)},
             columns : {Some(columns)},
             first : MacroLimits, last : MacroLimits,
             after : MacroCursors(columns), before : MacroCursors(columns)]
            : columns \in MacroColumns, args \in MacroArgs }

InitExpand ==
    /\ vreq \in [entry : {"expand"}, raw : MacroInputs]
    /\ vres = None
    /\ store = NoStore
    /\ hist = <<>>
    /\ trav = NoTraversal

\* The compiler expands sqlx_expand_paginated_query!
CallExpand ==
    /\ vreq.entry = "expand"
    /\ vres = None
    /\ vres' = Some(ExpandPaginatedQuery(vreq.raw))
    /\ UNCHANGED <<vreq, store, hist, trav>>

NextExpand == CallExpand

SpecExpand == InitExpand /\ [][NextExpand]_vars

----------------------------------------------------------------------------
(* A forward traversal: first = F with no cursor, then first = F after the *)
(* end cursor of the previous page, until a page comes back empty.         *)

RunPage(st, page) ==
    IF st.path = "query" THEN QueryPaginatedAs(page, st)
    ELSE FromItems(Dataset(st), page)

Nodes(page) == [i \in 1..Len(page.edges) |-> page.edges[i].node]

\* trav: [first, cursor, acc, pages, status] of the traversal, and the
\* bookkeeping of the writes that happen beside it: `stable` are the rows
\* that were there at the start and were never written, `writes` counts the
\* writes, `orphaned` the requests whose cursor came from a row that was
\* deleted in the meantime
InitTraverse ==
    /\ store \in Stores
    /\ \E f \in 1..MaxLimit :
          trav = [first |-> f, cursor |-> None, acc |-> <<>>, pages |-> <<>>,
                  status |-> "running",
                  stable |-> store.table, writes |-> 0, orphaned |-> 0]
    /\ hist = <<>>
    /\ vreq = NoRequest
    /\ vres = None

\* The next request of the traversal and what the caller does with its page
TraverseStep ==
    /\ trav.status = "running"
    /\ LET res == RunPage(store, ForwardPageQuery(trav.first, trav.cursor))
           orphan == IF trav.acc /= <<>> /\ trav.acc[Len(trav.acc)] \notin store.table
                     THEN 1 ELSE 0
       IN  trav' =
             IF ~res.ok THEN [trav EXCEPT !.status = "failed"]
             ELSE IF res.val.edges = <<>>
             THEN [trav EXCEPT !.status = "done", !.orphaned = @ + orphan]
             ELSE [trav EXCEPT !.cursor = res.val.page_info.end_cursor,
                               !.acc = @ \o Nodes(res.val),
                               !.pages = Append(@, Nodes(res.val)),
                               !.orphaned = @ + orphan]
    /\ UNCHANGED <<vreq, vres, store, hist>>

NextTraverse == TraverseStep

SpecTraverse == InitTraverse /\ [][NextTraverse]_vars

----------------------------------------------------------------------------
(* A forward traversal of the query path while other clients write to the  *)
(* table between its requests.                                             *)

MaxWrites == 2      \* inserts and deletes beside one traversal

InitConcurrent ==
    /\ InitTraverse
    /\ store.path = "query"

\* Another client inserts a row; the key columns still identify a row
InsertRow ==
    /\ trav.status = "running"
    /\ trav.writes < MaxWrites
    /\ \E r \in Rows \ store.table :
          /\ UniqueKey(store.columns, store.table \cup {r})
          /\ store' = [store EXCEPT !.table = @ \cup {r}]
          /\ trav' = [trav EXCEPT !.writes = @ + 1, !.stable = @ \ {r}]
    /\ UNCHANGED <<vreq, vres, hist>>

\* Another client deletes a row
DeleteRow ==
    /\ trav.status = "running"
    /\ trav.writes < MaxWrites
    /\ \E r \in store.table :
          /\ store' = [store EXCEPT !.table = @ \ {r}]
          /\ trav' = [trav EXCEPT !.writes = @ + 1, !.stable = @ \ {r}]
    /\ UNCHANGED <<vreq, vres, hist>>

NextConcurrent == TraverseStep \/ InsertRow \/ DeleteRow

SpecConcurrent == InitConcurrent /\ [][NextConcurrent]_vars

----------------------------------------------------------------------------
(* The constructors and the mapping operations of Page on their own: a     *)
(* caller builds a page from edges, or maps a page with a closure.  A      *)
(* closure is the function it computes; a closure of the try_ operations   *)
(* returns a Result.                                                       *)

MaxNode == 1    \* the nodes are 0..MaxNode
MaxEdges == 2   \* a page given to an operation has at most MaxEdges edges

MapNodes == 0..MaxNode
MapCursors == SampleCursors
MapEdges == {Edge(c, n) : c \in MapCursors, n \in MapNodes}
MapError == "MapError"

SeqsUpTo(S, n) == UNION {[1..k -> S] : k \in 0..n}

\* The pages a caller holds: built by Page::new
MapPages ==
    {PageNew(p, n, t, e) : p \in BOOLEAN, n \in BOOLEAN,
                           t \in {None, Some(MaxEdges)}, e \in SeqsUpTo(MapEdges, MaxEdges)}

\* Fn(T) -> Z: the identity and the reflection of the nodes
NodeClosures == {[n \in MapNodes |-> n], [n \in MapNodes |-> MaxNode - n]}

\* Fn(T) -> Result<Z, E>: a node closure that fails for no node or for one
TryNodeClosures ==
    {[n \in MapNodes |-> IF n = k THEN Err(MapError) ELSE Ok(f[n])] :
        f \in NodeClosures, k \in MapNodes \cup {-1}}

\* FnMut(Edge<T>) -> Edge<Z>: the closure builds the edge it returns, with
\* the cursor it was given (c = None) or with one of its own
EdgeClosures ==
    {[e \in MapEdges |-> Edge(IF IsSome(c) THEN Unwrap(c) ELSE e.cursor, f[e.node])] :
        f \in NodeClosures, c \in {None} \cup {Some(x) : x \in MapCursors}}

\* FnMut(Edge<T>) -> Result<Edge<Z>, E>
TryEdgeClosures ==
    {[e \in MapEdges |->
        IF g[e.node].ok
        THEN Ok(Edge(IF IsSome(c) THEN Unwrap(c) ELSE e.cursor, g[e.node].val))
        ELSE Err(g[e.node].err)] :
        g \in TryNodeClosures, c \in {None} \cup {Some(x) : x \in MapCursors}}

InitMap ==
    /\ \/ vreq \in [entry : {"page_new", "from_iter"},
                     has_previous_page : BOOLEAN, has_next_page : BOOLEAN,
                     total_items : {None, Some(MaxEdges)},
                     edges : SeqsUpTo(MapEdges, MaxEdges)]
       \/ vreq \in [entry : {"from_items"}, items : SeqsUpTo(MapNodes, MaxEdges),
                     page : {ForwardPageQuery(n, c) : n \in 0..MaxLimit,
                                c \in {None} \cup {Some(x) : x \in MapCursors}}
                            \cup {BackwardPageQuery(n, c) : n \in 0..MaxLimit,
                                c \in {None} \cup {Some(x) : x \in MapCursors}}]
       \/ vreq \in [entry : {"map"}, page : MapPages, map : EdgeClosures]
       \/ vreq \in [entry : {"try_map"}, page : MapPages, map : TryEdgeClosures]
       \/ vreq \in [entry : {"map_node"}, page : MapPages, map : NodeClosures]
       \/ vreq \in [entry : {"try_map_node"}, page : MapPages, map : TryNodeClosures]
    /\ vres = None
    /\ store = NoStore
    /\ hist = <<>>
    /\ trav = NoTraversal

\* A caller invokes Page::new
CallPageNew ==
    /\ vreq.entry = "page_new"
    /\ vres = None
    /\ vres' = Some(PageNew(vreq.has_previous_page, vreq.has_next_page,
                            vreq.total_items, vreq.edges))
    /\ UNCHANGED <<vreq, store, hist, trav>>

\* A caller invokes Page::from_iter
CallPageFromIter ==
    /\ vreq.entry = "from_iter"
    /\ vres = None
    /\ vres' = Some(PageFromIter(vreq.has_previous_page, vreq.has_next_page,
                                 vreq.total_items, vreq.edges))
    /\ UNCHANGED <<vreq, store, hist, trav>>

\* A caller invokes Page::from_items
CallPageFromItems ==
    /\ vreq.entry = "from_items"
    /\ vres = None
    /\ vres' = Some(FromItems(vreq.items, vreq.page))
    /\ UNCHANGED <<vreq, store, hist, trav>>

\* A caller invokes Page::map
CallPageMap ==
    /\ vreq.entry = "map"
    /\ vres = None
    /\ vres' = Some(PageMap(vreq.page, vreq.map))
    /\ UNCHANGED <<vreq, store, hist, trav>>

\* A caller invokes Page::try_map
CallPageTryMap ==
    /\ vreq.entry = "try_map"
    /\ vres = None
    /\ vres' = Some(PageTryMap(vreq.page, vreq.map))
    /\ UNCHANGED <<vreq, store, hist, trav>>

\* A caller invokes Page::map_node
CallPageMapNode ==
    /\ vreq.entry = "map_node"
    /\ vres = None
    /\ vres' = Some(PageMapNode(vreq.page, vreq.map))
    /\ UNCHANGED <<vreq, store, hist, trav>>

\* A caller invokes Page::try_map_node
CallPageTryMapNode ==
    /\ vreq.entry = "try_map_node"
    /\ vres = None
    /\ vres' = Some(PageTryMapNode(vreq.page, vreq.map))
    /\ UNCHANGED <<vreq, store, hist, trav>>

NextMap ==
    \/ CallPageNew \/ CallPageFromIter \/ CallPageFromItems
    \/ CallPageMap \/ CallPageTryMap \/ CallPageMapNode \/ CallPageTryMapNode

SpecMap == InitMap /\ [][NextMap]_vars

----------------------------------------------------------------------------
(* Properties of paging *)

\* C1: forward traversal partitions the dataset: first = F >= 1 with no
\* cursor, then first = F after the previous page's end cursor until an empty
\* page comes back: no request fails, the pages are consecutive runs of the
\* dataset in declared order, and at the end their concatenation is the whole
\* dataset; on the query path (unique key) and for Page::from_items.
C1_ForwardTraversalPartitions ==
    /\ trav.status /= "failed"
    /\ trav.acc = SubSeq(Dataset(store), 1, Len(trav.acc))
    /\ trav.status = "done" => trav.acc = Dataset(store)

\* The pages of page query `req` as the claims describe them
ExpectedBackward(data, k, last) == SubSeq(data, k - Min(last, k - 1), k - 1)
ExpectedForward(data, k, first) == SubSeq(data, k, Min(Len(data), k + first - 1))
PositionOf(data, node) == CHOOSE k \in 1..Len(data) : data[k] = node

\* C2: symmetry, for a composite key with mixed directions: a backward page
\* before the cursor of the element at position k is a run ending at k - 1,
\* and a forward request after the last cursor of that page starts at k; a
\* backward request before the first cursor of a forward page ends at the
\* element preceding that page.
C2_Symmetry ==
    Len(store.columns) >= 2 =>
        LET data == Dataset(store)
        IN  /\ \A i \in 1..Len(hist), k \in 1..Len(data) :
                  (hist[i].req.kind = "Backward"
                        /\ hist[i].req.before = Some(CursorAt(store, k))) =>
                      /\ hist[i].res.ok
                      /\ Nodes(hist[i].res.val) = ExpectedBackward(data, k, hist[i].req.last)
                      /\ (/\ i < Len(hist)
                          /\ hist[i].res.val.edges /= <<>>
                          /\ hist[i + 1].req.kind = "Forward"
                          /\ hist[i + 1].req.after = hist[i].res.val.page_info.end_cursor) =>
                            /\ hist[i + 1].res.ok
                            /\ Nodes(hist[i + 1].res.val)
                                  = ExpectedForward(data, k, hist[i + 1].req.first)
            /\ \A i \in 1..(Len(hist) - 1) :
                  (/\ hist[i].req.kind = "Forward"
                   /\ hist[i].res.ok
                   /\ hist[i].res.val.edges /= <<>>
                   /\ hist[i + 1].req.kind = "Backward"
                   /\ hist[i + 1].req.before = hist[i].res.val.page_info.start_cursor) =>
                      /\ hist[i + 1].res.ok
                      /\ Nodes(hist[i + 1].res.val)
                            = ExpectedBackward(data,
                                               PositionOf(data, hist[i].res.val.edges[1].node),
                                               hist[i + 1].req.last)

\* C2 witness: on the query path with [timestamp asc, id desc], a non-empty
\* backward page before position k, then a forward page that starts at k
C2_Witness ==
    /\ store.path = "query" /\ Len(store.columns) = 2 /\ Len(hist) = 2
    /\ hist[1].req.kind = "Backward" /\ IsSome(hist[1].req.before)
    /\ hist[1].res.ok /\ Len(hist[1].res.val.edges) = 2
    /\ hist[2].req.kind = "Forward"
    /\ hist[2].req.after = hist[1].res.val.page_info.end_cursor
    /\ hist[2].res.ok /\ hist[2].res.val.edges /= <<>>
    /\ hist[1].req.before = Some(hist[2].res.val.edges[1].cursor)

\* C3: forward from the start: first = F and no `after` over M items gives the
\* first min(F, M) items in declared order, has_next_page = (F < M) and
\* has_previous_page = false, on both paths.
C3_ForwardFromStart ==
    \A i \in 1..Len(hist) :
        (hist[i].req.kind = "Forward" /\ IsNone(hist[i].req.after)) =>
            LET data == Dataset(store)
                F == hist[i].req.first
            IN  /\ hist[i].res.ok
                /\ Nodes(hist[i].res.val) = SubSeq(data, 1, Min(F, Len(data)))
                /\ hist[i].res.val.page_info.has_next_page = (F < Len(data))
                /\ hist[i].res.val.page_info.has_previous_page = FALSE

\* C3 witness: the query path returned a full first page with more to come
C3_Witness ==
    \E i \in 1..Len(hist) :
        /\ store.path = "query"
        /\ hist[i].req.kind = "Forward" /\ IsNone(hist[i].req.after)
        /\ hist[i].req.first = 2 /\ Len(Dataset(store)) > 2
        /\ hist[i].res.ok /\ Len(hist[i].res.val.edges) = 2
        /\ hist[i].res.val.page_info.has_next_page

\* C4: backward from the end: last = L and no `before` over M items gives the
\* last min(L, M) items in declared order, has_previous_page = (L < M) and
\* has_next_page = false, on both paths.
C4_BackwardFromEnd ==
    \A i \in 1..Len(hist) :
        (hist[i].req.kind = "Backward" /\ IsNone(hist[i].req.before)) =>
            LET data == Dataset(store)
                L == hist[i].req.last
                M == Len(data)
            IN  /\ hist[i].res.ok
                /\ Nodes(hist[i].res.val) = SubSeq(data, M - Min(L, M) + 1, M)
                /\ hist[i].res.val.page_info.has_previous_page = (L < M)
                /\ hist[i].res.val.page_info.has_next_page = FALSE

\* C4 witness: the query path returned the last item of three or more, in a
\* store ordered by a descending column
C4_Witness ==
    \E i \in 1..Len(hist) :
        /\ store.path = "query"
        /\ hist[i].req.kind = "Backward" /\ IsNone(hist[i].req.before)
        /\ hist[i].req.last = 1 /\ Len(Dataset(store)) >= 3
        /\ hist[i].res.ok /\ Len(hist[i].res.val.edges) = 1
        /\ hist[i].res.val.page_info.has_previous_page

----------------------------------------------------------------------------
(* Properties of the validator, checked under SpecValidate *)

Called == IsSome(vres)
Result == Unwrap(vres)

\* A cursor argument counts as supplied when it is present and, for
\* PageQuery::decode, not the empty text
Supplied(r, arg) == IsSome(arg) /\ (r.entry = "decode" => Unwrap(arg) /= <<>>)

\* The cursor a successful PageQuery has to carry for a cursor argument
Carries(r, arg, carried) ==
    IF ~Supplied(r, arg) THEN carried = None
    ELSE /\ IsSome(carried)
         /\ IF r.entry = "new" THEN carried = arg
            ELSE CursorEncode(Unwrap(carried)) = Unwrap(arg)

LimitOf(q) == IF q.kind = "Forward" THEN q.first ELSE q.last
FieldOf(q) == IF q.kind = "Forward" THEN "first" ELSE "last"

\* C5: cursor decoding is the last rule: PageQuery::decode with `first` set,
\* `last` and `after` unset and a non-empty `before` text, well-formed or not,
\* fails with PageForwardWithBefore; with `last` set, `first` and `before`
\* unset and a non-empty `after` text it fails with PageBackwardWithAfter.
\* (Stated with no max_page_size and no default_limit configured.)
C5_DirectionErrorBeforeCursorDecoding ==
    (Called /\ vreq.entry = "decode" /\ IsNone(vreq.max_page_size)
            /\ IsNone(vreq.default_limit)) =>
        /\ (IsSome(vreq.first) /\ IsNone(vreq.last) /\ IsNone(vreq.after)
                /\ Supplied(vreq, vreq.before))
              => Result = Err(PageForwardWithBefore)
        /\ (IsSome(vreq.last) /\ IsNone(vreq.first) /\ IsNone(vreq.before)
                /\ Supplied(vreq, vreq.after))
              => Result = Err(PageBackwardWithAfter)

\* The error of the lowest-numbered rule of the list (1 to 7) that a request
\* with well-formed cursors violates, or None when it violates none
LowestViolatedRule(r) ==
    LET neither == IsNone(r.first) /\ IsNone(r.last)
        a == Supplied(r, r.after)
        b == Supplied(r, r.before)
        first == IF neither /\ ~b THEN r.default_limit ELSE r.first
        last == IF neither /\ b THEN r.default_limit ELSE r.last
        limit == IF IsSome(first) THEN Unwrap(first) ELSE Unwrap(last)
    IN  IF IsNone(first) /\ IsNone(last) THEN Some(PageMissing)
        ELSE IF IsSome(first) /\ IsSome(last) THEN Some(PageFirstAndLast)
        ELSE IF a /\ b THEN Some(PageAfterAndBefore)
        ELSE IF IsSome(first) /\ b THEN Some(PageForwardWithBefore)
        ELSE IF IsSome(last) /\ a THEN Some(PageBackwardWithAfter)
        ELSE IF IsSome(r.max_page_size) /\ limit > Unwrap(r.max_page_size)
             THEN Some(PageExceedsLimit(IF IsSome(first) THEN "first" ELSE "last",
                                        Unwrap(r.max_page_size)))
        ELSE None

\* C6: rules 1 to 7 are applied in the listed order: a request with
\* well-formed cursors that violates several rules gets the error of the
\* lowest-numbered one (in particular `first` with `before` and
\* first > max_page_size gives PageForwardWithBefore, not PageExceedsLimit).
C6_RulesInListedOrder ==
    (Called /\ vreq.entry = "new") =>
        IF IsSome(LowestViolatedRule(vreq))
        THEN Result = Err(Unwrap(LowestViolatedRule(vreq)))
        ELSE Result.ok

\* C7: with neither `first` nor `last` and a default_limit, the validator
\* answers as for first = default_limit, or as for last = default_limit when
\* `before` is supplied; with neither and no default_limit it answers
\* PageMissing; with `first` or `last` supplied the default_limit changes
\* nothing.
C7_DefaultLimit ==
    Called =>
        LET neither == IsNone(vreq.first) /\ IsNone(vreq.last)
            plain == [vreq EXCEPT !.default_limit = None]
        IN  /\ (neither /\ IsSome(vreq.default_limit) /\ ~Supplied(vreq, vreq.before))
                  => Result = Validate([plain EXCEPT !.first = vreq.default_limit])
            /\ (neither /\ IsSome(vreq.default_limit) /\ Supplied(vreq, vreq.before))
                  => Result = Validate([plain EXCEPT !.last = vreq.default_limit])
            /\ (neither /\ IsNone(vreq.default_limit)) => Result = Err(PageMissing)
            /\ ~neither => Result = Validate(plain)

\* C8: with max_page_size configured every returned PageQuery has
\* limit <= max_page_size; a request that is valid without the maximum is
\* answered unchanged when its active limit is <= max_page_size and with
\* PageExceedsLimit{active field, max} when it is larger; without a
\* max_page_size no request gets PageExceedsLimit.
C8_MaxPageSize ==
    Called =>
        LET unlimited == Validate([vreq EXCEPT !.max_page_size = None])
            max == Unwrap(vreq.max_page_size)
        IN  /\ (IsSome(vreq.max_page_size) /\ Result.ok) => LimitOf(Result.val) <= max
            /\ (IsSome(vreq.max_page_size) /\ unlimited.ok) =>
                  IF LimitOf(unlimited.val) > max
                  THEN Result = Err(PageExceedsLimit(FieldOf(unlimited.val), max))
                  ELSE Result = unlimited
            /\ IsNone(vreq.max_page_size) =>
                  (Result.ok \/ Result.err.code /= "PageExceedsLimit")

\* C8 witness: a limit taken from default_limit, equal to max_page_size, accepted
C8_Witness ==
    /\ Called /\ IsNone(vreq.first) /\ IsNone(vreq.last)
    /\ IsSome(vreq.max_page_size) /\ vreq.default_limit = vreq.max_page_size
    /\ Result.ok /\ LimitOf(Result.val) = Unwrap(vreq.max_page_size)

\* C9: a returned PageQuery is Forward{first, after}, only when no `last` and
\* no `before` were supplied, carrying the supplied or defaulted first and the
\* supplied after, or Backward{last, before}, only when no `first` and no
\* `after` were supplied, carrying last and before.
C9_ForwardXorBackward ==
    (Called /\ Result.ok) =>
        LET q == Result.val
            limit == IF IsSome(vreq.first) THEN vreq.first
                     ELSE IF IsSome(vreq.last) THEN vreq.last
                     ELSE vreq.default_limit
        IN  \/ /\ q.kind = "Forward"
               /\ DOMAIN q = {"kind", "first", "after"}
               /\ IsNone(vreq.last) /\ ~Supplied(vreq, vreq.before)
               /\ Some(q.first) = limit
               /\ Carries(vreq, vreq.after, q.after)
            \/ /\ q.kind = "Backward"
               /\ DOMAIN q = {"kind", "last", "before"}
               /\ IsNone(vreq.first) /\ ~Supplied(vreq, vreq.after)
               /\ Some(q.last) = limit
               /\ Carries(vreq, vreq.before, q.before)

\* C9 witness: PageQuery::decode returned a Forward query carrying its cursor
C9_Witness ==
    /\ Called /\ vreq.entry = "decode" /\ Result.ok
    /\ Result.val.kind = "Forward" /\ IsSome(Result.val.after)
    /\ Supplied(vreq, vreq.after)

----------------------------------------------------------------------------
(* Properties of the cursor codec, checked under SpecCodec *)

\* C11: cursor round trip: a value tuple v made into a cursor
\* (OpaqueCursor::new), into text (encode), read back (decode) and
\* deserialized (as_data) is v again; for every cursor c,
\* decode(encode(c)) = c; and the token text of a tuple is the same every
\* time it is computed.
C11_CursorRoundTrip ==
    Called =>
        /\ vreq.entry = "tuple" =>
              /\ Result.data = Ok(vreq.value)
              /\ Result.text = TupleRoundTrip(vreq.value).text
              /\ \A i \in 1..Len(Result.text) : IsAlphabetChar(Result.text[i])
        /\ vreq.entry = "cursor" => Result.data = Ok(vreq.cursor)

\* C11 witness: a pair with a two-digit value whose token has a partial last
\* group came back as it was
C11_Witness ==
    /\ Called /\ vreq.entry = "tuple" /\ Len(vreq.value) = 2
    /\ vreq.value[1] >= 10 /\ vreq.value[2] /= vreq.value[1]
    /\ Len(Result.text) % 4 /= 0
    /\ Result.data.ok /\ Result.data.val = vreq.value

----------------------------------------------------------------------------
(* Properties of requests with foreign or malformed cursors *)

\* The cursor a page query carries, as an Option
CursorOf(q) == IF q.kind = "Forward" THEN q.after ELSE q.before

\* The payload is the serialization of a value of the type the path
\* deserializes: a tuple of one value per column, or an index
SerializesExpected(st, payload) ==
    IF st.path = "query"
    THEN \E v \in [1..Len(st.columns) -> 0..MaxValue] : payload = CursorNewTuple(v)
    ELSE \E i \in 0..MaxValue : payload = CursorNewIndex(i)

\* C12: malformed cursors are client errors and never yield a value: for
\* raw arguments that satisfy rules 1 to 7, a non-empty `after` or `before`
\* text that is not url-safe unpadded base64 makes PageQuery::decode and
\* OpaqueCursor::decode fail with PageInvalidCursor, no PageQuery is returned
\* and nothing is run; a cursor whose payload is not the serialization of
\* the expected tuple fails with PageInvalidCursor in as_data, and the
\* executor receives no query.
C12_MalformedCursorsRejected ==
    /\ \A arg \in {vreq.after, vreq.before} :
          (/\ Called
           /\ IsNone(LowestViolatedRule(vreq))
           /\ IsSome(arg) /\ Unwrap(arg) \in MalformedTexts) =>
              /\ Result = Err(PageInvalidCursor)
              /\ CursorDecode(Unwrap(arg)) = Err(PageInvalidCursor)
              /\ hist = <<>>
    /\ \A i \in 1..Len(hist) :
          (/\ IsSome(CursorOf(hist[i].req))
           /\ ~SerializesExpected(store, Unwrap(CursorOf(hist[i].req)))) =>
              /\ hist[i].res = Err(PageInvalidCursor)
              /\ hist[i].queries = <<>>

\* C12 witness: the arguments passed validation with a decodable token whose
\* payload has three values for a two-column key, and the query path
\* rejected it
C12_Witness ==
    /\ Called /\ Result.ok /\ Result.val.kind = "Backward"
    /\ store.path = "query" /\ Len(store.columns) = 2 /\ store.table /= {}
    /\ Result.val.before = Some(CursorNewTuple(<<1, 1, 1>>))
    /\ Len(hist) = 1 /\ ~hist[1].res.ok

\* The payload is a tuple of n values
TupleOfArity(n, payload) == \E v \in [1..n -> 0..MaxValue] : payload = CursorNewTuple(v)

\* C13: a cursor that decodes but whose tuple has the wrong arity for the
\* column spec is answered with an internal error and not with the
\* client-input error PageInvalidCursor; and an empty column spec is rejected
\* and never produces a query.
C13_WrongArityIsInternalError ==
    /\ \A i \in 1..Len(hist), n \in 1..3 :
          (/\ store.path = "query"
           /\ n /= Len(store.columns)
           /\ IsSome(CursorOf(hist[i].req))
           /\ TupleOfArity(n, Unwrap(CursorOf(hist[i].req)))) =>
              /\ ~hist[i].res.ok
              /\ hist[i].res.err = InternalServerError
    /\ \A i \in 1..Len(hist) :
          ~ExpandPaginatedQuery(
              [ExpandInput(hist[i].req, store, None) EXCEPT !.columns = Some(<<>>)]).ok

----------------------------------------------------------------------------
(* Properties of the synthesized query, checked under SpecExpand *)

\* The input of the call, with the defaults of a missing key
RawArgs == IF IsSome(vreq.raw.args) THEN Unwrap(vreq.raw.args) ELSE <<>>
RawColumns == Unwrap(vreq.raw.columns)
RawExtraRow == IsSome(vreq.raw.extra_row) /\ Unwrap(vreq.raw.extra_row)
RawLimit == IF IsSome(vreq.raw.first) THEN Unwrap(vreq.raw.first) ELSE Unwrap(vreq.raw.last)
RawCursor == IF IsSome(vreq.raw.after) THEN vreq.raw.after ELSE vreq.raw.before

\* A paginated query came out of the expansion
Expanded == Called /\ Result.ok /\ Result.val.source.shape \in {"A", "B", "C", "D"}

\* C14: positional exactness: with k base-query arguments and n columns the
\* argument list is [the k arguments, the limit L, cursor value 1, ..,
\* cursor value n]; the LIMIT placeholder is $(k+1); column i's cursor value
\* is $(k+1+i) in its own comparison and in the equality prefix of every
\* later term; the base query text is unchanged; and no placeholder exceeds
\* the number of arguments.  [name asc, id desc] with one argument and
\* `after` gives "name" > $3 OR ("name" = $3 AND "id" < $4) and LIMIT $2.
C14_PositionalArguments ==
    Expanded =>
        LET q == Result.val
            k == Len(RawArgs)
            n == Len(RawColumns)
            values == IF IsSome(RawCursor) THEN Unwrap(RawCursor) ELSE <<>>
        IN  /\ Len(q.args) = k + 1 + Len(values)
            /\ SubSeq(q.args, 1, k) = RawArgs
            /\ SubSeq(q.args, k + 2, Len(q.args)) = values
            /\ q.source.limit = k + 1
            /\ q.source.query = Unwrap(vreq.raw.query)
            /\ IsSome(RawCursor) => Len(q.source.filter) = n
            /\ \A i \in 1..Len(q.source.filter) :
                  LET term == q.source.filter[i]
                  IN  /\ term.column = RawColumns[i].name
                      /\ term.ref = k + 1 + i
                      /\ term.ref <= Len(q.args)
                      /\ q.args[term.ref] = values[i]
                      /\ Len(term.prev) = i - 1
                      /\ \A j \in 1..(i - 1) :
                            /\ term.prev[j].column = RawColumns[j].name
                            /\ term.prev[j].ref = k + 1 + j
            /\ (/\ RawColumns = <<Column("name", TRUE), Column("id", FALSE)>>
                /\ k = 1 /\ IsSome(vreq.raw.after)) =>
                  /\ FilterText(q.source.filter)
                        = "\"name\" > $3 OR (\"name\" = $3 AND \"id\" < $4)"
                  /\ SourceText(q.source)
                        = "SELECT * FROM (SELECT \"id\", \"name\" FROM rows WHERE tenant = $1)"
                            \o " as q WHERE \"name\" > $3 OR (\"name\" = $3 AND \"id\" < $4)"
                            \o " ORDER BY \"name\" ASC, \"id\" DESC LIMIT $2"

\* C14 witness: shape D over three columns with two base-query arguments
C14_Witness ==
    /\ Expanded /\ Result.val.source.shape = "D"
    /\ Len(RawColumns) = 3 /\ Len(RawArgs) = 2
    /\ Len(Result.val.args) = 6
    /\ Result.val.source.filter[3].ref = 6

\* C15: the limit argument is L = N + 1 with extra_row and L = N without
\* (extra_row defaults to false) in all four shapes; a forward request with
\* no cursor is the base query followed by ORDER BY over the columns in their
\* declared directions and LIMIT $(k+1), with arguments [base arguments, L];
\* [id desc], first = 10 and no arguments give .. ORDER BY "id" DESC LIMIT $1
\* with [10], or [11] with extra_row.
C15_LimitArgumentAndShapeA ==
    Expanded =>
        LET q == Result.val
            k == Len(RawArgs)
            L == IF RawExtraRow THEN RawLimit + 1 ELSE RawLimit
        IN  /\ q.args[q.source.limit] = L
            /\ (IsSome(vreq.raw.first) /\ IsNone(vreq.raw.after)) =>
                  /\ q.source.shape = "A"
                  /\ q.args = Append(RawArgs, L)
                  /\ q.source.order = DeclaredOrder(RawColumns)
                  /\ SourceText(q.source)
                        = Unwrap(vreq.raw.query) \o " ORDER BY "
                            \o OrderText(DeclaredOrder(RawColumns))
                            \o " LIMIT $" \o ToString(k + 1)
            /\ (/\ RawColumns = <<Column("id", FALSE)>> /\ k = 0
                /\ vreq.raw.first = Some(TestFirst) /\ IsNone(vreq.raw.after)) =>
                  /\ SourceText(q.source)
                        = "SELECT \"id\", \"name\" FROM rows ORDER BY \"id\" DESC LIMIT $1"
                  /\ q.args = IF RawExtraRow THEN <<11>> ELSE <<10>>

\* C15 witness: shape C expanded without an extra_row key
C15_Witness ==
    /\ Expanded /\ Result.val.source.shape = "C"
    /\ IsNone(vreq.raw.extra_row) /\ vreq.raw.last = Some(TestFirst)
    /\ Result.val.args[Result.val.source.limit] = TestFirst

----------------------------------------------------------------------------
(* Properties of the executed queries and of the pages, checked under Spec *)

\* A key tuple sorts strictly before another in the declared order
KeyBefore(columns, k1, k2) ==
    \E i \in 1..Len(columns) :
        /\ \A j \in 1..(i - 1) : k1[j] = k2[j]
        /\ IF columns[i].asc THEN k1[i] < k2[i] ELSE k1[i] > k2[i]

\* The records of the dataset strictly before a key tuple, in declared order
DatasetBefore(st, key) ==
    SortRows({r \in Range(Dataset(st)) : KeyBefore(st.columns, RowKey(st.columns, r), key)},
             DeclaredOrder(st.columns))

\* The last n elements of a sequence
LastRows(seq, n) == SubSeq(seq, Len(seq) - Min(n, Len(seq)) + 1, Len(seq))

\* The rows are in the declared order of the store
InDeclaredOrder(st, rows) ==
    \A a, b \in 1..Len(rows) :
        a < b => OrderedBefore(DeclaredOrder(st.columns), rows[a], rows[b])

\* C16: backward queries return the tail in natural order: shape C (last, no
\* before) produces exactly the last L rows of the base result under the
\* declared order, shape D (last with before) exactly the last L rows among
\* those strictly before the cursor; the rows and the page edges come in the
\* declared order, never reversed, for every column spec.
C16_BackwardTailInNaturalOrder ==
    \A i \in 1..Len(hist) :
        (hist[i].queries /= <<>> /\ hist[i].req.kind = "Backward") =>
            LET q == hist[i].queries[1]
                L == q.args[q.source.limit]
                before == CursorTuple(hist[i].req, store).val
            IN  /\ q.source.shape = IF IsNone(before) THEN "C" ELSE "D"
                /\ IsNone(before) => hist[i].rows = LastRows(Dataset(store), L)
                /\ IsSome(before) =>
                      hist[i].rows = LastRows(DatasetBefore(store, Unwrap(before)), L)
                /\ InDeclaredOrder(store, hist[i].rows)
                /\ hist[i].res.ok
                /\ InDeclaredOrder(store, Nodes(hist[i].res.val))

\* C16 witness: shape D over [timestamp asc, id desc] or its mirror image
\* returned the last two of the three rows before the cursor
C16_Witness ==
    \E i \in 1..Len(hist) :
        /\ hist[i].queries /= <<>> /\ hist[i].queries[1].source.shape = "D"
        /\ Len(store.columns) = 2 /\ Len(Dataset(store)) = 4
        /\ hist[i].req.last = 1 /\ Len(hist[i].rows) = 2
        /\ hist[i].rows[2] = Dataset(store)[3]
        /\ Len(hist[i].res.val.edges) = 1

\* C17: every page produced for a validated request with limit N (first or
\* last) has at most N edges: for Page::from_items over any items and any
\* cursor, and for the query path whenever the executor returned at most
\* L = N + 1 rows.
C17_EdgesWithinLimit ==
    \A i \in 1..Len(hist) :
        LET N == LimitOf(hist[i].req)
        IN  (/\ hist[i].res.ok
             /\ store.path = "query" => Len(hist[i].rows) <= N + 1) =>
                Len(hist[i].res.val.edges) <= N

\* C17 witness: the executor returned last + 1 = 3 rows and the page has 2
\* edges; or Page::from_items cut 4 items after a cursor down to first = 2
C17_Witness ==
    \E i \in 1..Len(hist) :
        /\ hist[i].res.ok /\ LimitOf(hist[i].req) = 2
        /\ Len(hist[i].res.val.edges) = 2
        /\ IsSome(CursorOf(hist[i].req))
        /\ IF store.path = "query"
           THEN hist[i].req.kind = "Backward" /\ Len(hist[i].rows) = 3
           ELSE hist[i].req.kind = "Forward" /\ Len(Dataset(store)) = 4

\* C18: total_items is never computed by the engine: every page produced by
\* sqlx_query_paginated_as and by Page::from_items has total_items unset.
C18_TotalItemsUnset ==
    \A i \in 1..Len(hist) :
        hist[i].res.ok => hist[i].res.val.total_items = None

\* The same dataset behind the other path
OtherPath(st) == [st EXCEPT !.path = IF @ = "query" THEN "items" ELSE "query"]

\* The page query with its cursor replaced
WithCursorOf(req, cursor) ==
    IF req.kind = "Forward" THEN ForwardPageQuery(req.first, cursor)
    ELSE BackwardPageQuery(req.last, cursor)

\* C19: reference equivalence: over the same uniquely keyed records in the
\* same declared order, with the index cursor i standing for the key cursor
\* of record i, Page::from_items and the query path (synthesized query,
\* executor, assembler) answer the same request (first with optional after,
\* last with optional before) with the same nodes in the same order.
C19_ReferenceEquivalence ==
    \A i \in 1..Len(hist), k \in 0..Len(Dataset(store)) :
        LET mine == IF k = 0 THEN None ELSE Some(CursorAt(store, k))
            theirs == IF k = 0 THEN None ELSE Some(CursorAt(OtherPath(store), k))
            other == RunPage(OtherPath(store), WithCursorOf(hist[i].req, theirs))
        IN  CursorOf(hist[i].req) = mine =>
                /\ hist[i].res.ok
                /\ other.ok
                /\ Nodes(hist[i].res.val) = Nodes(other.val)

----------------------------------------------------------------------------
(* Properties of a traversal beside concurrent writes, under SpecConcurrent *)

\* The answer to a request as far as a caller sees rows: failure or the nodes
NodesOrError(res) == IF res.ok THEN Ok(Nodes(res.val)) ELSE Err(res.err)

\* C20: keyset stability under concurrent writes: while a forward traversal
\* of the query path (first = F >= 1, each request after the previous page's
\* end cursor) is interleaved with inserts and deletes of other rows, no row
\* is returned in two different pages; once an empty page is reached every
\* row that was there unchanged during the whole traversal has been returned
\* in exactly one page; and deleting the row a cursor was taken from does not
\* change which rows follow it.
C20_KeysetStability ==
    /\ \A a, b \in 1..Len(trav.acc) : trav.acc[a] = trav.acc[b] => a = b
    /\ trav.status = "done" =>
          \A r \in BaseRows(store.query, store.base_args, trav.stable) :
              Cardinality({a \in 1..Len(trav.acc) : trav.acc[a] = r}) = 1
    /\ (/\ trav.status = "running" /\ trav.acc /= <<>>
        /\ trav.acc[Len(trav.acc)] \notin store.table
        /\ UniqueKey(store.columns, store.table \cup {trav.acc[Len(trav.acc)]})) =>
          LET page == ForwardPageQuery(trav.first, trav.cursor)
              restored == [store EXCEPT !.table = @ \cup {trav.acc[Len(trav.acc)]}]
          IN  NodesOrError(RunPage(store, page)) = NodesOrError(RunPage(restored, page))

\* C20 witness: a traversal over two key columns finished after three
\* non-empty pages; a request was made after the row of its cursor had been
\* deleted, a row inserted beside the traversal was returned, and a row that
\* was there all along came in the last page
C20_Witness ==
    /\ trav.status = "done" /\ Len(store.columns) = 2
    /\ Len(trav.pages) = 3 /\ trav.writes = 2 /\ trav.orphaned >= 1
    /\ trav.pages[3][1] \in trav.stable
    /\ \E a \in 1..Len(trav.acc) :
          trav.acc[a] \in store.table /\ trav.acc[a] \notin trav.stable

----------------------------------------------------------------------------
(* Properties of Page::from_items, checked under Spec *)

\* The index a page query's cursor deserializes to, as an Option
IndexOf(req) ==
    IF IsSome(CursorOf(req)) /\ CursorAsIndex(Unwrap(CursorOf(req))).ok
    THEN Some(CursorAsIndex(Unwrap(CursorOf(req))).val)
    ELSE None

\* The request is one of the early-return cases of Page::from_items
EarlyReturn(st, req) ==
    /\ IsSome(IndexOf(req))
    /\ IF req.kind = "Forward" THEN Unwrap(IndexOf(req)) >= Len(Dataset(st))
       ELSE Unwrap(IndexOf(req)) = 0

\* C21: in-memory page flags: for a request that is not an early-return
\* case, Page::from_items reports has_previous_page = (start > 0) and
\* has_next_page = (end < length), where [start, end) are the zero-based
\* positions of the returned edges in the full input sequence and length is
\* the number of items of the full input sequence; a forward page requested
\* with `after` has has_next_page exactly when items remain after its last
\* edge.
C21_InMemoryFlags ==
    \A i \in 1..Len(hist) :
        (/\ store.path = "items"
         /\ hist[i].res.ok
         /\ ~EarlyReturn(store, hist[i].req)
         /\ hist[i].res.val.edges /= <<>>) =>
            LET data == Dataset(store)
                nodes == Nodes(hist[i].res.val)
                start == PositionOf(data, nodes[1]) - 1
                end == PositionOf(data, nodes[Len(nodes)])
            IN  /\ hist[i].res.val.page_info.has_previous_page = (start > 0)
                /\ hist[i].res.val.page_info.has_next_page = (end < Len(data))

\* C24: in-memory cursors are true indices: every edge returned by
\* Page::from_items carries a cursor that deserializes to the zero-based
\* index of its node in the full input sequence, for every validated request
\* (a `before` index larger than the length included).
C24_CursorsAreIndices ==
    \A i \in 1..Len(hist) :
        (store.path = "items" /\ hist[i].res.ok) =>
            \A e \in 1..Len(hist[i].res.val.edges) :
                CursorAsIndex(hist[i].res.val.edges[e].cursor)
                    = Ok(PositionOf(Dataset(store), hist[i].res.val.edges[e].node) - 1)

\* C25: out-of-range in-memory cursors: Page::from_items returns a page with
\* no edges, has_previous_page = false and has_next_page = false when
\* `after` decodes to an index >= the length of the sequence, and when
\* `before` decodes to index 0, whatever first or last; it does not fail.
C25_OutOfRangeCursors ==
    \A i \in 1..Len(hist) :
        (store.path = "items" /\ EarlyReturn(store, hist[i].req)) =>
            /\ hist[i].res.ok
            /\ hist[i].res.val.edges = <<>>
            /\ ~hist[i].res.val.page_info.has_previous_page
            /\ ~hist[i].res.val.page_info.has_next_page

\* C25 witness: over two items, a forward request whose `after` is the
\* index 2 got an empty page
C25_Witness ==
    /\ store.path = "items" /\ Len(Dataset(store)) = 2 /\ Len(hist) = 1
    /\ hist[1].req.kind = "Forward" /\ hist[1].req.first = 2
    /\ IndexOf(hist[1].req) = Some(2)
    /\ hist[1].res.ok /\ hist[1].res.val.edges = <<>>

\* The page Page::from_items returns for the backward test of page.rs:
\* 20 items, last = 6, before = the cursor of index 9
TestBackwardPage ==
    FromItems([i \in 1..20 |-> i - 1], BackwardPageQuery(6, Some(CursorNewIndex(9))))

\* C26: in-memory backward page with a cursor: Page::from_items with
\* Backward{last = L, before = b} over M items, 0 < b <= M, returns exactly
\* the items at positions [b - min(L, b), b) in their original order, with
\* has_previous_page = (L < b) and has_next_page = false (20 items,
\* last = 6, before = 9 gives items 3..8, has_previous_page true,
\* has_next_page false).
C26_BackwardWithCursor ==
    /\ \A i \in 1..Len(hist) :
          (/\ store.path = "items"
           /\ hist[i].req.kind = "Backward"
           /\ IsSome(IndexOf(hist[i].req))
           /\ 0 < Unwrap(IndexOf(hist[i].req))
           /\ Unwrap(IndexOf(hist[i].req)) <= Len(Dataset(store))) =>
              LET b == Unwrap(IndexOf(hist[i].req))
                  L == hist[i].req.last
              IN  /\ hist[i].res.ok
                  /\ Nodes(hist[i].res.val)
                        = SubSeq(Dataset(store), b - Min(L, b) + 1, b)
                  /\ hist[i].res.val.page_info.has_previous_page = (L < b)
                  /\ ~hist[i].res.val.page_info.has_next_page
    /\ TestBackwardPage.ok
    /\ Nodes(TestBackwardPage.val) = <<3, 4, 5, 6, 7, 8>>
    /\ TestBackwardPage.val.page_info.has_previous_page
    /\ ~TestBackwardPage.val.page_info.has_next_page

\* C26 witness: over three items, last = 1 and before = index 2 gave the
\* item at index 1, with items on both sides of the page
C26_Witness ==
    /\ store.path = "items" /\ Len(Dataset(store)) = 3 /\ Len(hist) = 1
    /\ hist[1].req.kind = "Backward" /\ hist[1].req.last = 1
    /\ IndexOf(hist[1].req) = Some(2)
    /\ hist[1].res.ok /\ Nodes(hist[1].res.val) = <<Dataset(store)[2]>>
    /\ hist[1].res.val.page_info.has_previous_page

\* The page Page::from_items returns for the forward test of page.rs:
\* 5 items, first = 1, after = the cursor of index 3
TestForwardPage ==
    FromItems([i \in 1..5 |-> i - 1], ForwardPageQuery(1, Some(CursorNewIndex(3))))

\* C28: Page::from_items sets total_items to the number of items of the
\* full input sequence, counted before the cursor and first/last are
\* applied, for every request, the early-return empty pages included
\* (5 items, first = 1, after = 3 gives total_items = 5).
C28_TotalItemsIsFullCount ==
    /\ \A i \in 1..Len(hist) :
          (store.path = "items" /\ hist[i].res.ok) =>
              hist[i].res.val.total_items = Some(Len(Dataset(store)))
    /\ TestForwardPage.ok /\ TestForwardPage.val.total_items = Some(5)
    /\ TestBackwardPage.ok /\ TestBackwardPage.val.total_items = Some(20)

\* C28 witness: over three items, a page of one edge requested from the
\* start, then the early-return empty page requested before that edge's
\* cursor (index 0), both with total_items = 3
C28_Witness ==
    /\ store.path = "items" /\ Len(Dataset(store)) = 3 /\ Len(hist) = 2
    /\ hist[1].req.kind = "Forward" /\ hist[1].req.first = 1
    /\ hist[1].res.ok /\ Len(hist[1].res.val.edges) = 1
    /\ hist[1].res.val.total_items = Some(3)
    /\ hist[2].req.kind = "Backward" /\ IndexOf(hist[2].req) = Some(0)
    /\ hist[2].res.ok /\ hist[2].res.val.edges = <<>>
    /\ hist[2].res.val.total_items = Some(3)

----------------------------------------------------------------------------
(* Properties of the keyset predicate, checked under SpecExpand *)

\* Rows over the columns of the macro inputs, with values below, among and
\* above the cursor values
KeyRows == [name : 0..(MaxId + 1), id : 0..(MaxId + 1), timestamp : 0..(MaxId + 1)]

\* C22: keyset predicate exactness: for n >= 1 columns, a cursor tuple v and
\* the flag `after`, the filter of columns_to_filter is the OR over i of
\* (col_1 = v_1 AND .. AND col_(i-1) = v_(i-1) AND col_i op_i v_i) with
\* op_i = '>' exactly when asc_i = after; it is true for a row exactly when
\* the row comes strictly after v (after) or strictly before v (not after)
\* in the lexicographic order of the columns and their directions, and false
\* for a row equal to v on all columns.
C22_KeysetPredicateExact ==
    (Expanded /\ IsSome(RawCursor)) =>
        LET q == Result.val
            filter == q.source.filter
            v == Unwrap(RawCursor)
            after == IsSome(vreq.raw.after)
        IN  /\ Len(filter) = Len(RawColumns)
            /\ \A i \in 1..Len(filter) :
                  /\ filter[i].column = RawColumns[i].name
                  /\ q.args[filter[i].ref] = v[i]
                  /\ (filter[i].op = ">") = (RawColumns[i].asc = after)
                  /\ (filter[i].op = "<") = (RawColumns[i].asc /= after)
                  /\ Len(filter[i].prev) = i - 1
                  /\ \A j \in 1..(i - 1) :
                        /\ filter[i].prev[j].column = RawColumns[j].name
                        /\ q.args[filter[i].prev[j].ref] = v[j]
            /\ \A row \in KeyRows :
                  LET key == RowKey(RawColumns, row)
                  IN  /\ FilterHolds(filter, q.args, row)
                            = IF after THEN KeyBefore(RawColumns, v, key)
                              ELSE KeyBefore(RawColumns, key, v)
                      /\ key = v => ~FilterHolds(filter, q.args, row)

\* C22 witness: a `before` filter over three columns of mixed directions
C22_Witness ==
    /\ Expanded /\ IsSome(vreq.raw.before) /\ Len(RawColumns) = 3
    /\ Result.val.source.filter[3].op = ">"
    /\ Result.val.source.filter[2].op = "<"
    /\ \E row \in KeyRows :
          /\ FilterHolds(Result.val.source.filter, Result.val.args, row)
          /\ row.name = Unwrap(vreq.raw.before)[1]
          /\ row.id = Unwrap(vreq.raw.before)[2]

----------------------------------------------------------------------------
(* Properties of the page assembly of the query path, checked under Spec *)

\* C23: page assembly trimming: given the fetched rows (at most L = N + 1)
\* and the limit N, when there are more than N rows exactly one is removed,
\* the last when paginating forward and the first when paginating backward,
\* and has_next_page (forward) or has_previous_page (backward) is true; when
\* there are at most N rows none is removed and that flag is false.  The
\* remaining rows keep their order and each becomes one edge whose cursor
\* encodes that row's column tuple.
C23_AssemblyTrimming ==
    \A i \in 1..Len(hist) :
        (store.path = "query" /\ hist[i].res.ok) =>
            LET N == LimitOf(hist[i].req)
                rows == hist[i].rows
                page == hist[i].res.val
                forward == hist[i].req.kind = "Forward"
                flag == IF forward THEN page.page_info.has_next_page
                        ELSE page.page_info.has_previous_page
            IN  /\ Len(rows) <= N + 1
                /\ Len(rows) > N =>
                      /\ Len(page.edges) = Len(rows) - 1
                      /\ Nodes(page) = IF forward THEN SubSeq(rows, 1, Len(rows) - 1)
                                       ELSE SubSeq(rows, 2, Len(rows))
                      /\ flag
                /\ Len(rows) <= N => (Nodes(page) = rows /\ ~flag)
                /\ \A e \in 1..Len(page.edges) :
                      page.edges[e].cursor
                          = CursorNewTuple(RowKey(store.columns, page.edges[e].node))

\* C29: in the page assembly of the query path only the flag of the
\* travelling direction can be set: a forward page always has
\* has_previous_page = false, even when `after` is given and rows exist
\* before the page, and a backward page always has has_next_page = false,
\* even when `before` is given and rows exist after the page.
C29_OnlyTravellingFlag ==
    \A i \in 1..Len(hist) :
        (store.path = "query" /\ hist[i].res.ok) =>
            /\ hist[i].req.kind = "Forward" =>
                  ~hist[i].res.val.page_info.has_previous_page
            /\ hist[i].req.kind = "Backward" =>
                  ~hist[i].res.val.page_info.has_next_page

\* C29 witness: a forward page requested after the end cursor of the page
\* before it: it starts at the second record, more records follow it, and
\* has_previous_page is false
C29_Witness ==
    /\ store.path = "query" /\ Len(hist) = 2
    /\ hist[1].req.kind = "Forward" /\ hist[1].res.ok
    /\ hist[2].req.kind = "Forward" /\ hist[2].res.ok
    /\ hist[2].req.after = hist[1].res.val.page_info.end_cursor
    /\ IsSome(hist[2].req.after)
    /\ hist[2].res.val.edges /= <<>>
    /\ PositionOf(Dataset(store), hist[2].res.val.edges[1].node) = 2
    /\ hist[2].res.val.page_info.has_next_page
    /\ ~hist[2].res.val.page_info.has_previous_page

----------------------------------------------------------------------------
(* Properties of the empty cursor text, checked under SpecValidate *)

\* The request with its empty cursor texts omitted
OmitEmpty(r) ==
    [r EXCEPT !.after = IF @ = Some(<<>>) THEN None ELSE @,
              !.before = IF @ = Some(<<>>) THEN None ELSE @]

\* C30: PageQuery::decode treats an empty `after` or `before` text as an
\* absent cursor: its outcome (PageQuery or error) equals that of the same
\* request with that cursor omitted, so first with before = "" is accepted
\* as a Forward query, after = "" together with a real `before` is not
\* PageAfterAndBefore, and a default limit with before = "" is applied as
\* `first`.
C30_EmptyCursorIsAbsent ==
    (Called /\ vreq.entry = "decode") =>
        /\ vreq.after = Some(<<>>) => Result = Validate([vreq EXCEPT !.after = None])
        /\ vreq.before = Some(<<>>) => Result = Validate([vreq EXCEPT !.before = None])
        /\ Result = Validate(OmitEmpty(vreq))
        /\ (/\ IsSome(vreq.first) /\ IsNone(vreq.last) /\ IsNone(vreq.after)
            /\ vreq.before = Some(<<>>)
            /\ ~ExceedsMaximum(Unwrap(vreq.first), vreq.max_page_size)) =>
                Result = Ok(ForwardPageQuery(Unwrap(vreq.first), None))
        /\ (vreq.after = Some(<<>>) /\ Supplied(vreq, vreq.before)) =>
                (~Result.ok => Result.err /= PageAfterAndBefore)
        /\ (/\ IsNone(vreq.first) /\ IsNone(vreq.last) /\ IsNone(vreq.after)
            /\ vreq.before = Some(<<>>) /\ IsSome(vreq.default_limit)
            /\ ~ExceedsMaximum(Unwrap(vreq.default_limit), vreq.max_page_size)) =>
                Result = Ok(ForwardPageQuery(Unwrap(vreq.default_limit), None))

\* C30 witness: a default limit with before = "" became `first`
C30_Witness ==
    /\ Called /\ vreq.entry = "decode"
    /\ IsNone(vreq.first) /\ IsNone(vreq.last) /\ IsNone(vreq.after)
    /\ vreq.before = Some(<<>>) /\ vreq.default_limit = Some(2)
    /\ Result.ok /\ Result.val.kind = "Forward" /\ Result.val.first = 2
    /\ Result.val.after = None

----------------------------------------------------------------------------
(* Properties of the constructors and mapping operations of Page, checked  *)
(* under SpecMap                                                           *)

\* The page the operation built, as an Option: none when it failed
BuiltPage ==
    IF vreq.entry \in {"from_items", "try_map", "try_map_node"}
    THEN IF Result.ok THEN Some(Result.val) ELSE None
    ELSE Some(Result)

Mapping == vreq.entry \in {"map", "try_map", "map_node", "try_map_node"}

\* start_cursor and end_cursor are the cursors of the first and last edge,
\* and both are absent exactly when the page has no edges
CursorInvariant(page) ==
    /\ page.page_info.start_cursor
          = IF page.edges = <<>> THEN None ELSE Some(page.edges[1].cursor)
    /\ page.page_info.end_cursor
          = IF page.edges = <<>> THEN None ELSE Some(page.edges[Len(page.edges)].cursor)
    /\ (IsNone(page.page_info.start_cursor) /\ IsNone(page.page_info.end_cursor))
          <=> page.edges = <<>>

\* What the closure of the request returned for the i-th edge of the page
\* it was given: an edge (map, try_map) or a node (map_node, try_map_node)
Returned(i) ==
    LET edge == vreq.page.edges[i]
    IN  IF vreq.entry = "map" THEN vreq.map[edge]
        ELSE IF vreq.entry = "try_map" THEN vreq.map[edge].val
        ELSE IF vreq.entry = "map_node" THEN vreq.map[edge.node]
        ELSE vreq.map[edge.node].val

\* The mapped page has the flags, the total and the number of edges of the
\* page it was mapped from, and its i-th node is the one the closure
\* returned for the i-th edge
FrameKept(page) ==
    /\ page.page_info.has_previous_page = vreq.page.page_info.has_previous_page
    /\ page.page_info.has_next_page = vreq.page.page_info.has_next_page
    /\ page.total_items = vreq.page.total_items
    /\ Len(page.edges) = Len(vreq.page.edges)
    /\ \A i \in 1..Len(page.edges) :
          page.edges[i].node = IF vreq.entry \in {"map", "try_map"}
                               THEN Returned(i).node ELSE Returned(i)

\* C27 (as claimed): page cursor invariant: in every Page built by
\* Page::new, from_iter, from_items, map, try_map, map_node or try_map_node,
\* page_info.start_cursor equals the cursor of the first edge and
\* page_info.end_cursor the cursor of the last edge, and both are absent
\* exactly when the page has no edges; the mapping operations leave
\* has_previous_page, has_next_page, total_items, the number and order of
\* edges and every edge's cursor unchanged.
C27_PageCursorInvariant ==
    (Called /\ IsSome(BuiltPage)) =>
        LET page == Unwrap(BuiltPage)
        IN  /\ CursorInvariant(page)
            /\ Mapping =>
                  /\ FrameKept(page)
                  /\ \A i \in 1..Len(page.edges) :
                        page.edges[i].cursor = vreq.page.edges[i].cursor

\* C27 (amended): the page cursor invariant holds in every Page built by
\* the seven operations; the mapping operations leave has_previous_page,
\* has_next_page, total_items and the number and order of edges unchanged;
\* map_node and try_map_node leave every edge's cursor unchanged, while
\* after map and try_map every edge carries the cursor of the edge the
\* closure returned for it, which need not be the one it was given.
C27_PageCursorInvariantAmended ==
    (Called /\ IsSome(BuiltPage)) =>
        LET page == Unwrap(BuiltPage)
        IN  /\ CursorInvariant(page)
            /\ Mapping =>
                  /\ FrameKept(page)
                  /\ \A i \in 1..Len(page.edges) :
                        page.edges[i].cursor
                            = IF vreq.entry \in {"map", "try_map"}
                              THEN Returned(i).cursor
                              ELSE vreq.page.edges[i].cursor

\* C27 witness: try_map over a page of two edges with different cursors and
\* a closure that gives every edge the cursor of the second: the mapped
\* page starts and ends with that cursor
C27_Witness ==
    /\ Called /\ vreq.entry = "try_map" /\ Result.ok
    /\ Len(vreq.page.edges) = 2
    /\ vreq.page.edges[1].cursor /= vreq.page.edges[2].cursor
    /\ Result.val.page_info.start_cursor = vreq.page.page_info.end_cursor
    /\ Result.val.page_info.end_cursor = vreq.page.page_info.end_cursor
    /\ Result.val.page_info.has_previous_page /\ ~Result.val.page_info.has_next_page
    /\ Result.val.total_items = Some(MaxEdges)

====
